---- MODULE Spec2Model ----
(***************************************************************************)
(* Workflow execution scheduler of swarm.new: the DAG engine               *)
(* (src/lib/execution/index.ts, class DAGEngine), the execution queue      *)
(* (class ExecutionQueue) and the execution service                        *)
(* (src/lib/execution/execution-service.ts, class ExecutionService).       *)
(*                                                                         *)
(* Node ids are the numbers 1..n.  A JavaScript Set or Map key order is    *)
(* its insertion order, so a Set is a duplicate-free sequence.             *)
(***************************************************************************)
EXTENDS Integers, Sequences, FiniteSets, TLC

(***************************************************************************)
(* Bounds of the model.                                                    *)
(***************************************************************************)
\* node ids are 1..MaxNodes; a workflow has 1..MaxNodes nodes
MaxNodes == 3
\* longest edge list handed to the planner
MaxEdges == 3
\* retryAttempts is drawn from 0..MaxRetry
MaxRetry == 1
\* maxConcurrentNodes is drawn from 1..MaxConcurrent
MaxConcurrent == 2
\* number of stopExecution calls made during one run
MaxStops == 1
\* most nodes of a workflow whose node data is drawn freely
MaxSetupNodes == 2
\* most nodes of a workflow in the runs checked for termination
MaxLiveNodes == 2
\* most nodes of a plan handed to an execution queue directly
MaxQueueNodes == 2
\* executeWorkflow calls that share the service's registry
MaxRuns == 2
\* Date.now() reads 0..MaxClock
MaxClock == 1
\* events a run's queue emits while the registry is observed
MaxRunEvents == 1
\* most nodes of a workflow whose edges name ports
MaxPortNodes == 3
\* longest edge list of a workflow whose edges name ports
MaxPortEdges == 2
\* most nodes of a workflow whose run is observed by listeners
MaxObsNodes == 2
\* maxEventHistory is drawn from 0..MaxHistory
MaxHistory == 2
\* getProgress() calls a caller makes during one run
MaxProgressCalls == 2

(***************************************************************************)
(* JavaScript array helpers.                                               *)
(***************************************************************************)
Min2(a, b) == IF a < b THEN a ELSE b

Max2(a, b) == IF a > b THEN a ELSE b

\* Array.prototype.includes / Set.prototype.has on a sequence
Includes(s, x) == \E i \in 1..Len(s) : s[i] = x

\* Array.prototype.indexOf: 0-based index of the first occurrence, -1 if none
IndexOf(s, x) ==
  IF Includes(s, x)
    THEN (CHOOSE i \in 1..Len(s) : s[i] = x /\ \A j \in 1..(i-1) : s[j] # x) - 1
    ELSE -1

\* Array.prototype.slice(start, end) with its rules for negative arguments
Slice(s, start, end) ==
  LET len == Len(s)
      b == IF start < 0 THEN Max2(len + start, 0) ELSE Min2(start, len)
      e == IF end < 0 THEN Max2(len + end, 0) ELSE Min2(end, len)
  IN SubSeq(s, b + 1, e)

\* Array.prototype.slice(start)
SliceFrom(s, start) == Slice(s, start, Len(s))

\* Set.prototype.add: insertion order is kept, a present element is not moved
SetAdd(s, x) == IF Includes(s, x) THEN s ELSE Append(s, x)

\* Array.prototype.filter by membership in a set
FilterSeq(s, keep) == SelectSeq(s, LAMBDA x : x \in keep)

Range(s) == {s[i] : i \in 1..Len(s)}

(***************************************************************************)
(* DAGEngine.createExecutionPlan and its helpers.                          *)
(***************************************************************************)
\* the two maps after "Initialize maps": every node id maps to an empty Set
initMaps(ns) ==
  [dependencyMap |-> [id \in Range(ns) |-> <<>>],
   dependentMap  |-> [id \in Range(ns) |-> <<>>]]

\* edges.forEach: an edge whose source or target is no node is skipped
RECURSIVE buildMaps(_, _, _)
buildMaps(es, i, maps) ==
  IF i > Len(es) THEN maps
  ELSE LET e == es[i] IN
    IF e.source \in DOMAIN maps.dependentMap /\ e.target \in DOMAIN maps.dependencyMap
      THEN LET m1 == [maps EXCEPT !.dependentMap[e.source] = SetAdd(@, e.target)]
               m2 == [m1 EXCEPT !.dependencyMap[e.target] = SetAdd(@, e.source)]
           IN buildMaps(es, i + 1, m2)
      ELSE buildMaps(es, i + 1, maps)

RECURSIVE dfs(_, _, _, _)
RECURSIVE dfsDeps(_, _, _, _, _)

\* dfs testing visited before recursionStack: a node on the stack is always
\* visited, so the back-edge test is never reached
dfs_visitedFirst(depMap, nodeId, path, st) ==
  IF nodeId \in st.visited THEN [st EXCEPT !.ret = FALSE]
  ELSE IF nodeId \in st.recursionStack
    THEN [st EXCEPT !.cycles = Append(@, SliceFrom(path, IndexOf(path, nodeId)) \o <<nodeId>>),
                    !.ret = TRUE]
  ELSE LET st1 == [st EXCEPT !.visited = @ \cup {nodeId},
                             !.recursionStack = @ \cup {nodeId}]
           r == dfsDeps(depMap, depMap[nodeId], 1, Append(path, nodeId), st1)
       IN IF r.ret THEN r
          ELSE [r EXCEPT !.recursionStack = @ \ {nodeId}, !.ret = FALSE]

\* the closure dfs of detectCycles; st holds visited, recursionStack, cycles
\* and the call's return value ret.  A call that returns true leaves its
\* node on recursionStack, as the code does.
dfs(depMap, nodeId, path, st) ==
  IF nodeId \in st.recursionStack
    THEN [st EXCEPT !.cycles = Append(@, SliceFrom(path, IndexOf(path, nodeId)) \o <<nodeId>>),
                    !.ret = TRUE]
  ELSE IF nodeId \in st.visited THEN [st EXCEPT !.ret = FALSE]
  ELSE LET st1 == [st EXCEPT !.visited = @ \cup {nodeId},
                             !.recursionStack = @ \cup {nodeId}]
           r == dfsDeps(depMap, depMap[nodeId], 1, Append(path, nodeId), st1)
       IN IF r.ret THEN r
          ELSE [r EXCEPT !.recursionStack = @ \ {nodeId}, !.ret = FALSE]

\* "for (const dep of dependencies)" of dfs, from the i-th dependency on
dfsDeps(depMap, deps, i, path, st) ==
  IF i > Len(deps) THEN [st EXCEPT !.ret = FALSE]
  ELSE LET r == dfs(depMap, deps[i], path, st)
       IN IF r.ret THEN r ELSE dfsDeps(depMap, deps, i + 1, path, r)

\* "for (const node of nodes)" of detectCycles, from the i-th node on
RECURSIVE detectCyclesFrom(_, _, _, _, _)
detectCyclesFrom(ns, depMap, i, st, hasCycles) ==
  IF i > Len(ns) THEN [hasCycles |-> hasCycles, cycles |-> st.cycles]
  ELSE IF ns[i] \notin st.visited
    THEN LET r == dfs(depMap, ns[i], <<>>, st)
         IN detectCyclesFrom(ns, depMap, i + 1, r, hasCycles \/ r.ret)
    ELSE detectCyclesFrom(ns, depMap, i + 1, st, hasCycles)

\* detectCycles that finds nothing
detectCycles_none(ns, depMap) == [hasCycles |-> FALSE, cycles |-> <<>>]

detectCycles(ns, depMap) ==
  detectCyclesFrom(ns, depMap, 1,
                   [visited |-> {}, recursionStack |-> {}, cycles |-> <<>>, ret |-> FALSE],
                   FALSE)

\* "Calculate in-degrees": nodes.forEach sets inDegree and queues the roots
initialQueue(ns, depMap) ==
  SelectSeq(ns, LAMBDA id : Len(depMap[id]) = 0)

\* the inner nodes.forEach of topologicalSort for the dequeued nodeId, from the
\* j-th node on; qs is [inDegree, queue]
RECURSIVE releaseDependents(_, _, _, _, _)
releaseDependents(ns, depMap, nodeId, j, qs) ==
  IF j > Len(ns) THEN qs
  ELSE LET id == ns[j] IN
    IF Includes(depMap[id], nodeId)
      THEN LET newInDegree == qs.inDegree[id] - 1
               q1 == [qs EXCEPT !.inDegree[id] = newInDegree]
               q2 == IF newInDegree = 0 THEN [q1 EXCEPT !.queue = Append(@, id)] ELSE q1
           IN releaseDependents(ns, depMap, nodeId, j + 1, q2)
      ELSE releaseDependents(ns, depMap, nodeId, j + 1, qs)

\* processLevel that reads queue.length on every pass instead of levelSize:
\* a node released by the level joins that same level
RECURSIVE processLevel_noLevelSize(_, _, _, _, _)
processLevel_noLevelSize(ns, depMap, k, qs, currentLevel) ==
  IF Len(qs.queue) = 0 THEN [qs |-> qs, currentLevel |-> currentLevel]
  ELSE LET nodeId == Head(qs.queue)
           q1 == [qs EXCEPT !.queue = Tail(@)]
       IN processLevel_noLevelSize(ns, depMap, k - 1,
                       releaseDependents(ns, depMap, nodeId, 1, q1),
                       Append(currentLevel, nodeId))

\* "for (let i = 0; i < levelSize; i++)": k nodes are still to be dequeued
RECURSIVE processLevel(_, _, _, _, _)
processLevel(ns, depMap, k, qs, currentLevel) ==
  IF k = 0 THEN [qs |-> qs, currentLevel |-> currentLevel]
  ELSE LET nodeId == Head(qs.queue)
           q1 == [qs EXCEPT !.queue = Tail(@)]
       IN processLevel(ns, depMap, k - 1,
                       releaseDependents(ns, depMap, nodeId, 1, q1),
                       Append(currentLevel, nodeId))

\* "while (queue.length > 0)" of topologicalSort
RECURSIVE sortLevels(_, _, _, _)
sortLevels(ns, depMap, qs, levels) ==
  IF Len(qs.queue) = 0 THEN levels
  ELSE LET r == processLevel(ns, depMap, Len(qs.queue), qs, <<>>)
       IN sortLevels(ns, depMap, r.qs,
                     IF Len(r.currentLevel) > 0 THEN Append(levels, r.currentLevel)
                     ELSE levels)

topologicalSort(ns, depMap) ==
  sortLevels(ns, depMap,
             [inDegree |-> [id \in Range(ns) |-> Len(depMap[id])],
              queue |-> initialQueue(ns, depMap)],
             <<>>)

\* getNodeLevel counting the levels from 1
getNodeLevel_oneBased(nodeId, levels) ==
  IF \E i \in 1..Len(levels) : Includes(levels[i], nodeId)
    THEN CHOOSE i \in 1..Len(levels) :
           Includes(levels[i], nodeId) /\ \A j \in 1..(i-1) : ~Includes(levels[j], nodeId)
    ELSE -1

\* index of the level that holds nodeId, -1 when no level does
getNodeLevel(nodeId, levels) ==
  IF \E i \in 1..Len(levels) : Includes(levels[i], nodeId)
    THEN (CHOOSE i \in 1..Len(levels) :
            Includes(levels[i], nodeId) /\ \A j \in 1..(i-1) : ~Includes(levels[j], nodeId)) - 1
    ELSE -1

\* the plan; a node's status lives in the variable status, not in the plan
createExecutionPlan(ns, es) ==
  LET maps == buildMaps(es, 1, initMaps(ns))
      cyc == detectCycles(ns, maps.dependencyMap)
  IN IF cyc.hasCycles
       THEN [nodes |-> <<>>, levels |-> <<>>, totalLevels |-> 0,
             hasCycles |-> TRUE, cycles |-> cyc.cycles]
       ELSE LET levels == topologicalSort(ns, maps.dependencyMap)
            IN [nodes |-> [i \in 1..Len(ns) |->
                             [id |-> ns[i],
                              dependencies |-> maps.dependencyMap[ns[i]],
                              dependents |-> maps.dependentMap[ns[i]],
                              level |-> getNodeLevel(ns[i], levels)]],
                levels |-> levels, totalLevels |-> Len(levels),
                hasCycles |-> FALSE, cycles |-> <<>>]

(***************************************************************************)
(* Plan queries of DAGEngine.  st is the map node id -> status.            *)
(***************************************************************************)
\* the dependency test with some for every: one completed dependency is enough
depsCompleted_some(p, st, node) ==
  \/ Len(node.dependencies) = 0
  \/ \E i \in 1..Len(node.dependencies) :
       LET depId == node.dependencies[i]
       IN \E k \in 1..Len(p.nodes) : p.nodes[k].id = depId /\ st[depId] = "completed"

\* the dependency test with a failed dependency counted as done
depsCompleted_orError(p, st, node) ==
  \A i \in 1..Len(node.dependencies) :
    LET depId == node.dependencies[i]
    IN \E k \in 1..Len(p.nodes) :
         p.nodes[k].id = depId /\ st[depId] \in {"completed", "error"}

\* dependencies.every(depId => the node depId exists and is completed)
depsCompleted(p, st, node) ==
  \A i \in 1..Len(node.dependencies) :
    LET depId == node.dependencies[i]
    IN \E k \in 1..Len(p.nodes) : p.nodes[k].id = depId /\ st[depId] = "completed"

\* getReadyNodes without the dependency test: every pending node is ready
getReadyNodes_noDeps(p, st) ==
  SelectSeq(p.nodes, LAMBDA node : st[node.id] = "pending")

getReadyNodes(p, st) ==
  SelectSeq(p.nodes, LAMBDA node : st[node.id] = "pending" /\ depsCompleted(p, st, node))

\* Math.min(...readyNodes.map(node => node.level)) of a non-empty array
minLevel(readyNodes) ==
  CHOOSE l \in {readyNodes[i].level : i \in 1..Len(readyNodes)} :
    \A i \in 1..Len(readyNodes) : l <= readyNodes[i].level

\* getParallelExecutionBatch without the filter on the minimum level
getParallelExecutionBatch_allReady(p, st) == getReadyNodes(p, st)

getParallelExecutionBatch(p, st) ==
  LET readyNodes == getReadyNodes(p, st)
  IN IF Len(readyNodes) = 0 THEN <<>>
     ELSE SelectSeq(readyNodes, LAMBDA node : node.level = minLevel(readyNodes))

\* isExecutionComplete that counts only completed nodes as done
isExecutionComplete_allCompleted(p, st) ==
  \A i \in 1..Len(p.nodes) : st[p.nodes[i].id] = "completed"

isExecutionComplete(p, st) ==
  \A i \in 1..Len(p.nodes) : st[p.nodes[i].id] \in {"completed", "error"}

\* isExecutionBlocked without the test for running nodes
isExecutionBlocked_ignoresRunning(p, st) ==
  IF isExecutionComplete(p, st) THEN FALSE
  ELSE Len(getReadyNodes(p, st)) = 0

isExecutionBlocked(p, st) ==
  IF isExecutionComplete(p, st) THEN FALSE
  ELSE /\ Len(getReadyNodes(p, st)) = 0
       /\ \A i \in 1..Len(p.nodes) : st[p.nodes[i].id] # "running"

\* node.status = status for the node found by id; no node found, no change
updateNodeStatus(p, st, nodeId, newStatus) ==
  IF \E i \in 1..Len(p.nodes) : p.nodes[i].id = nodeId
    THEN [st EXCEPT ![nodeId] = newStatus]
    ELSE st

\* the errors array of validateExecutionPlan, as the kinds of its entries
\* validateExecutionPlan that only looks at hasCycles
validateExecutionPlan_cyclesOnly(p) ==
  IF p.hasCycles THEN {"cycles"} ELSE {}

validateExecutionPlan(p) ==
  LET reachableNodes == UNION {Range(p.levels[i]) : i \in 1..Len(p.levels)}
      ids == {p.nodes[i].id : i \in 1..Len(p.nodes)}
  IN (IF p.hasCycles THEN {"cycles"} ELSE {})
     \cup (IF \E i \in 1..Len(p.nodes) : p.nodes[i].id \notin reachableNodes
             THEN {"unreachable"} ELSE {})
     \cup (IF \E i \in 1..Len(p.nodes) : Range(p.nodes[i].dependencies) \ ids # {}
             THEN {"missing_dependency"} ELSE {})

(***************************************************************************)
(* ExecutionService.validateWorkflow: the errors array, as the kinds of its *)
(* entries.  ns are the node ids (0: no id), data the nodes' data.         *)
(***************************************************************************)
\* ['queen', 'builder'].includes(agentType)
requiresModel(agentType) == agentType \in {"queen", "builder"}

\* validateWorkflow without the checks of the edges
validateWorkflow_nodesOnly(ns, data, es) ==
  (IF Len(ns) = 0 THEN {"no_nodes"} ELSE {})
  \cup (IF \E i \in 1..Len(ns) : ns[i] = 0 THEN {"missing_id"} ELSE {})
  \cup (IF \E i \in 1..Len(ns) : data[i].agentType = "" THEN {"missing_agent_type"} ELSE {})
  \cup (IF \E i \in 1..Len(ns) : requiresModel(data[i].agentType) /\ ~data[i].model
          THEN {"missing_model"} ELSE {})

validateWorkflow(ns, data, es) ==
  (IF Len(ns) = 0 THEN {"no_nodes"} ELSE {})
  \cup (IF \E i \in 1..Len(ns) : ns[i] = 0 THEN {"missing_id"} ELSE {})
  \cup (IF \E i \in 1..Len(ns) : data[i].agentType = "" THEN {"missing_agent_type"} ELSE {})
  \cup (IF \E i \in 1..Len(ns) : requiresModel(data[i].agentType) /\ ~data[i].model
          THEN {"missing_model"} ELSE {})
  \cup (IF \E i \in 1..Len(es) : es[i].source \notin Range(ns)
          THEN {"missing_source"} ELSE {})
  \cup (IF \E i \in 1..Len(es) : es[i].target \notin Range(ns)
          THEN {"missing_target"} ELSE {})

(***************************************************************************)
(* State.                                                                  *)
(***************************************************************************)
VARIABLES
  nodes,               \* workflow.nodes: the node ids, in order (0: a node without id)
  nodeData,            \* workflow.nodes[i].data: records [agentType, model]
  edges,               \* workflow.edges: records [source, target]
  plan,                \* the ExecutionPlan (all but the nodes' status)
  planState,           \* "none", "created" or "validated": direct planner calls
  planErrors,          \* result of validateExecutionPlan on the plan
  maxConcurrentNodes,  \* ExecutionOptions.maxConcurrentNodes
  retryAttempts,       \* ExecutionOptions.retryAttempts
  svcPc,               \* position of ExecutionService.executeWorkflow
  runStatus,           \* ExecutionState.status ("none": no state registered)
  runError,            \* ExecutionState.error ("" is undefined)
  queueRegistered,     \* executionQueues has the run's queue
  svcResult,           \* what ExecutionService.executeWorkflow returned
  status,              \* ExecutionNode.status by node id
  runningTasks,        \* keys of ExecutionQueue.runningTasks
  nodeResults,         \* ExecutionQueue.nodeResults: id -> the NodeResult's status and the
                       \* handler invocation that returned it (NoNodeResult if absent)
  isExecuting,         \* ExecutionQueue.isExecuting
  events,              \* every event passed to emitEvent, in order
  loopPc,              \* position of ExecutionQueue.execute / executeWorkflow
  awaited,             \* the promises the run loop awaits (Promise.race / Promise.all)
  loopError,           \* message of the error thrown by the run loop ("" if none)
  execResult,          \* what execute() returned
  phase,               \* position of each node's promise chain in executeNode
  attempts,            \* the argument of the pending executeWithRetry call, by node
  calls,               \* handler invocations so far, by node
  outcomes,            \* how each settled attempt of a node ended, in order
  stale,               \* a timed-out handler invocation is still in flight
  stopCalls,           \* stopExecution calls made so far
  stopHist,            \* history: what the first stopExecution call found
  clock,               \* the reading of Date.now()
  executions,          \* ExecutionService.executions: run id -> ExecutionState
  executionQueues,     \* ExecutionService.executionQueues: run id -> the queue's run
  runs,                \* the executeWorkflow calls sharing the service: position, run id,
                       \* events emitted, and (history) whether its state was purged
  edgePorts,           \* workflow.edges[i].sourceHandle / targetHandle, by edge index
  resultOutputs,       \* NodeResult.outputs of the stored result, by node id
  handlerInputs,       \* ExecutionContext.inputs of the last handler invocation, by node id
  maxEventHistory,     \* ExecutionConfig.maxEventHistory
  enableEventLogging,  \* ExecutionConfig.enableEventLogging
  stateListeners,      \* ExecutionService.stateListeners, in insertion order
  eventListeners,      \* ExecutionQueue.eventListeners
  stateEvents,         \* ExecutionState.events
  stateProgress,       \* ExecutionState.progress
  missed,              \* history: state changes a registered state listener was not called for
  unheard,             \* history: events a registered event listener was not called for
  escaped,             \* history: a listener's exception left emitEvent or notifyStateListeners
  caught,              \* history: a listener has thrown and the exception was caught
  progressSnapshot,    \* what the last getProgress() call of a caller returned, and when
  loadedModels,        \* ModelLoader.loadedModels: model id -> the pipeline (number of its load), 0: none
  loadingPromises,     \* ModelLoader.loadingPromises: model id -> the load its promise stands for, 0: none
  progressCallbacks,   \* ModelLoader.progressCallbacks: the model ids with a callback
  loads,               \* the pipeline() calls started: records [id, state]
  loadCalls,           \* the loadModel calls made: model id, awaited load, result, and
                       \* (history) whether no unload of the id came after the call
  unloadCalls,         \* history: number of unloadModel / unloadAllModels calls
  unloadedSince        \* history, by model id: the id was unloaded and no loadModel
                       \* call made after that has succeeded

vars == <<nodes, nodeData, edges, plan, planState, planErrors, maxConcurrentNodes,
          retryAttempts, svcPc, runStatus, runError, queueRegistered, svcResult, status,
          runningTasks, nodeResults, isExecuting, events, loopPc, awaited, loopError,
          execResult, phase, attempts, calls, outcomes, stale, stopCalls, stopHist,
          clock, executions, executionQueues, runs, edgePorts, resultOutputs,
          handlerInputs, maxEventHistory, enableEventLogging, stateListeners,
          eventListeners, stateEvents, stateProgress, missed, unheard, escaped,
          caught, progressSnapshot,
          loadedModels, loadingPromises, progressCallbacks, loads, loadCalls,
          unloadCalls, unloadedSince>>

workflowVars == <<nodes, nodeData, edges, maxConcurrentNodes, retryAttempts>>

planVars == <<plan, planState, planErrors>>

serviceVars == <<svcPc, runStatus, runError, queueRegistered, svcResult>>

queueVars == <<status, runningTasks, nodeResults, isExecuting, events, loopPc, awaited,
               loopError, execResult>>

taskVars == <<phase, attempts, calls, outcomes, stale>>

stopVars == <<stopCalls, stopHist>>

registryVars == <<clock, executions, executionQueues, runs>>

dataVars == <<edgePorts, resultOutputs, handlerInputs>>

observerVars == <<maxEventHistory, enableEventLogging, stateListeners, eventListeners,
                  stateEvents, stateProgress, missed, unheard, escaped, caught,
                 progressSnapshot>>

loaderVars == <<loadedModels, loadingPromises, progressCallbacks, loads, loadCalls,
                unloadCalls, unloadedSince>>

\* the chain A -> B -> C of Scenario A and the diamond A -> B, A -> C, B -> D,
\* C -> D of Scenario B, with A, B, C, D as 1, 2, 3, 4
ChainNodes == <<1, 2, 3>>

ChainEdges == <<[source |-> 1, target |-> 2], [source |-> 2, target |-> 3]>>

DiamondNodes == <<1, 2, 3, 4>>

DiamondEdges ==
  <<[source |-> 1, target |-> 2], [source |-> 1, target |-> 3],
    [source |-> 2, target |-> 4], [source |-> 3, target |-> 4]>>

\* the node ids of the model: those of the drawn workflows and of the diamond
NodeIds == (1..MaxNodes) \cup {DiamondNodes[i] : i \in 1..4}

NoPlan ==
  [nodes |-> <<>>, levels |-> <<>>, totalLevels |-> 0, hasCycles |-> FALSE, cycles |-> <<>>]

NoResult == [success |-> FALSE, results |-> {}, error |-> "", returned |-> FALSE]

NoStop == [called |-> FALSE, executing |-> FALSE, running |-> FALSE, pending |-> {}]

NoSvcResult == [returned |-> FALSE, success |-> FALSE, error |-> ""]

\* no entry under the node id
NoNodeResult == [status |-> "none", invocation |-> 0]

\* the data of n nodes that need no model
DefaultData(n) == [i \in 1..n |-> [agentType |-> "scout", model |-> FALSE]]

\* the ids 1..n in order
NodeList(n) == [i \in 1..n |-> i]

Edge(s, t) == [source |-> s, target |-> t]

\* every sequence over S of length at most n
RECURSIVE SeqsUpTo(_, _)
SeqsUpTo(S, n) ==
  IF n = 0 THEN {<<>>}
  ELSE LET shorter == SeqsUpTo(S, n - 1)
       IN shorter \cup {Append(s, x) : s \in {t \in shorter : Len(t) = n - 1}, x \in S}

\* the elements of a set of edges, ordered by source and then target
RECURSIVE EdgeList(_)
EdgeList(E) ==
  IF E = {} THEN <<>>
  ELSE LET first == CHOOSE e \in E : \A f \in E :
                      e.source < f.source \/ (e.source = f.source /\ e.target <= f.target)
       IN <<first>> \o EdgeList(E \ {first})

(***************************************************************************)
(* The workflow's graph read off its node list and edge list, and its      *)
(* structural defects.                                                     *)
(***************************************************************************)
\* x depends on y: an edge runs from node y to node x
DependsOn(x, y) ==
  /\ x \in Range(nodes)
  /\ y \in Range(nodes)
  /\ \E i \in 1..Len(edges) : edges[i].source = y /\ edges[i].target = x

\* a dependency path of at most k edges leads from x to y
RECURSIVE DependsWithin(_, _, _)
DependsWithin(x, y, k) ==
  /\ k > 0
  /\ \/ DependsOn(x, y)
     \/ \E z \in Range(nodes) : DependsOn(x, z) /\ DependsWithin(z, y, k - 1)

GraphCyclic == \E x \in Range(nodes) : DependsWithin(x, x, Len(nodes))

\* an edge's source or target is no node of the workflow
DanglingEdge ==
  \E i \in 1..Len(edges) :
    edges[i].source \notin Range(nodes) \/ edges[i].target \notin Range(nodes)

\* no nodes, a node without id or agent kind, or a dangling edge
StructurallyInvalid ==
  \/ Len(nodes) = 0
  \/ \E i \in 1..Len(nodes) : nodes[i] = 0 \/ nodeData[i].agentType = ""
  \/ DanglingEdge

\* a queen or builder node without a model
MissingModel ==
  \E i \in 1..Len(nodes) : nodeData[i].agentType \in {"queen", "builder"} /\ ~nodeData[i].model

(***************************************************************************)
(* The registry of ExecutionService shared by several executeWorkflow      *)
(* calls.                                                                  *)
(***************************************************************************)
WorkflowIds == {"w1", "w2"}

Runs == 1..MaxRuns

\* `exec_${workflowId}_${Date.now()}`
executionIdOf(workflowId, now) == [workflowId |-> workflowId, time |-> now]

ExecutionIds == {executionIdOf(w, now) : w \in WorkflowIds, now \in 0..MaxClock}

NoExecutionId == [workflowId |-> "", time |-> 0]

\* no entry under the key (Map.get gives undefined)
NoState == [owner |-> 0, status |-> "none", events |-> <<>>]

InitRegistry ==
  /\ clock = 0
  /\ executions = [id \in ExecutionIds |-> NoState]
  /\ executionQueues = [id \in ExecutionIds |-> 0]
  /\ runs = [r \in Runs |-> [pc |-> "new", executionId |-> NoExecutionId, emitted |-> 0,
                              purged |-> FALSE]]

(***************************************************************************)
(* Ports and payloads: what a node's result holds under each output port   *)
(* and what a handler is given under each input key.                       *)
(***************************************************************************)
PortNames == {"a", "b"}

\* the payload the node produced on the output port
Payload(node, port) == [node |-> node, port |-> port]

\* no entry under the key
NoPayload == [node |-> 0, port |-> ""]

\* a Record<string, DataPayload> without entries
NoEntries == [k \in PortNames |-> NoPayload]

\* edges without handles, no result, no handler invocation
InitNoData ==
  /\ edgePorts = <<>>
  /\ resultOutputs = [id \in NodeIds |-> NoEntries]
  /\ handlerInputs = [id \in NodeIds |-> NoEntries]

(***************************************************************************)
(* The service's configuration, its listeners and the state it mirrors.    *)
(***************************************************************************)
\* "maxEventHistory: 100" of the default configuration
DefaultMaxEventHistory == 100

\* the listener functions callers register
Listeners == {"l1", "l2"}

\* (completed / total) * 100 as the fraction it is, 0 when total is 0
Percentage(completed, total) ==
  IF total > 0 THEN <<completed * 100, total>> ELSE <<0, 1>>

\* the progress of createExecutionState
NoProgress ==
  [total |-> 0, completed |-> 0, running |-> 0, pending |-> 0, failed |-> 0,
   percentage |-> Percentage(0, 0)]

\* no getProgress() call made yet; repeated tells (history) that the call
\* found the node statuses of the call before
NoSnapshot ==
  [calls |-> 0, status |-> [id \in NodeIds |-> "pending"], value |-> NoProgress,
   repeated |-> FALSE]

\* the default configuration, no listener registered, nothing observed
InitNoObservers ==
  /\ maxEventHistory = DefaultMaxEventHistory
  /\ enableEventLogging = TRUE
  /\ stateListeners = <<>>
  /\ eventListeners = <<>>
  /\ stateEvents = <<>>
  /\ stateProgress = NoProgress
  /\ missed = [l \in Listeners |-> 0]
  /\ unheard = [l \in Listeners |-> 0]
  /\ escaped = FALSE
  /\ caught = FALSE
  /\ progressSnapshot = NoSnapshot

\* the model ids of MODEL_REGISTRY that the model uses, and an id that is
\* not in the registry
RegistryIds == {"gpt2", "nllb"}

UnknownModelId == "unknown"

\* the ModelLoader as its constructor leaves it: three empty maps
InitNoLoader ==
  /\ loadedModels = [id \in RegistryIds |-> 0]
  /\ loadingPromises = [id \in RegistryIds |-> 0]
  /\ progressCallbacks = {}
  /\ loads = <<>>
  /\ loadCalls = <<>>
  /\ unloadCalls = 0
  /\ unloadedSince = [id \in RegistryIds |-> FALSE]

\* the registry, the service's and the queue's fields as the constructors
\* leave them
InitCore ==
  /\ InitRegistry
  /\ InitNoLoader
  /\ plan = NoPlan
  /\ planState = "none"
  /\ planErrors = {}
  /\ svcPc = "new"
  /\ runStatus = "none"
  /\ runError = ""
  /\ queueRegistered = FALSE
  /\ svcResult = NoSvcResult
  /\ status = [id \in NodeIds |-> "pending"]
  /\ runningTasks = {}
  /\ nodeResults = [id \in NodeIds |-> NoNodeResult]
  /\ isExecuting = FALSE
  /\ events = <<>>
  /\ loopPc = "idle"
  /\ awaited = {}
  /\ loopError = ""
  /\ execResult = NoResult
  /\ phase = [id \in NodeIds |-> "none"]
  /\ attempts = [id \in NodeIds |-> 0]
  /\ calls = [id \in NodeIds |-> 0]
  /\ outcomes = [id \in NodeIds |-> <<>>]
  /\ stale = FALSE
  /\ stopCalls = 0
  /\ stopHist = NoStop

\* everything but the workflow and the options, as the constructors leave it
InitRest == InitCore /\ InitNoData /\ InitNoObservers

(***************************************************************************)
(* The planner called directly on any bounded node list and edge list.     *)
(***************************************************************************)
InitPlan ==
  /\ \E n \in 1..MaxNodes : nodes = NodeList(n) /\ nodeData = DefaultData(n)
  /\ edges \in SeqsUpTo({Edge(s, t) : s \in 1..MaxNodes, t \in 1..MaxNodes}, MaxEdges)
  /\ maxConcurrentNodes = 1
  /\ retryAttempts = 0
  /\ InitRest

\* DAGEngine.createExecutionPlan(nodes, edges)
PlanCreate ==
  /\ planState = "none"
  /\ plan' = createExecutionPlan(nodes, edges)
  /\ planState' = "created"
  /\ UNCHANGED <<planErrors, workflowVars, registryVars, loaderVars, dataVars, observerVars,
                 serviceVars, queueVars, taskVars, stopVars>>

\* DAGEngine.validateExecutionPlan(plan)
PlanValidate ==
  /\ planState = "created"
  /\ planErrors' = validateExecutionPlan(plan)
  /\ planState' = "validated"
  /\ UNCHANGED <<plan, workflowVars, registryVars, loaderVars, dataVars, observerVars, serviceVars,
                 queueVars, taskVars, stopVars>>

NextPlan == PlanCreate \/ PlanValidate

SpecPlan == InitPlan /\ [][NextPlan]_vars

(***************************************************************************)
(* One run of ExecutionService.executeWorkflow.                            *)
(*                                                                         *)
(* JavaScript runs each callback to its next await: while the service or   *)
(* the run loop is in a synchronous stretch nothing else runs (Sync), and  *)
(* a timer or an outside call such as stopExecution runs only when no      *)
(* promise continuation is pending (Quiescent).  A handler may settle at   *)
(* any point outside a synchronous stretch.                                *)
(***************************************************************************)
Event(type, nodeId) == [type |-> type, nodeId |-> nodeId]

PlanIds == {plan.nodes[i].id : i \in 1..Len(plan.nodes)}

\* the run loop with the continuation of its Promise.race lost
LoopRunnable_noRace == loopPc = "loop"

\* the run loop can continue: it is in its synchronous stretch, or the
\* Promise.race it awaits has a settled promise
LoopRunnable ==
  \/ loopPc = "loop"
  \/ loopPc = "awaitRace" /\ \E id \in awaited : phase[id] = "done"

Sync == svcPc \in {"created", "preparing"} \/ loopPc \in {"entry", "loop"}

MicrotaskPending ==
  \/ LoopRunnable
  \/ loopPc = "awaitAll" /\ \A id \in awaited : phase[id] = "done"
  \/ loopPc = "returned"
  \/ loopPc = "finished" /\ svcPc = "executing"
  \/ \E id \in NodeIds : phase[id] = "settled"

Quiescent == ~Sync /\ ~MicrotaskPending

\* the edges a run's workflow is drawn from: from a lower to a higher id
\* (the node list is then in a topological order), from a node to itself
\* (a cycle), and to the id n + 1, which is no node of the workflow
RunEdges(n) ==
  {e \in {Edge(s, t) : s \in 1..n, t \in 1..(n + 1)} : e.source <= e.target}

\* workflows that pass validation or fail it by a dangling edge or a
\* self-edge, under every option
InitRunnable ==
  /\ \E n \in 1..MaxNodes :
       /\ nodes = NodeList(n)
       /\ nodeData = DefaultData(n)
       /\ \E E \in SUBSET RunEdges(n) :
            Cardinality(E) <= MaxEdges /\ edges = EdgeList(E)
  /\ maxConcurrentNodes \in 1..MaxConcurrent
  /\ retryAttempts \in 0..MaxRetry

\* workflows whose edge list, in any order and with duplicates, has a cycle
InitCyclic ==
  /\ \E n \in 1..MaxNodes :
       /\ nodes = NodeList(n)
       /\ nodeData = DefaultData(n)
       /\ edges \in SeqsUpTo({Edge(s, t) : s \in 1..n, t \in 1..n}, MaxEdges)
  /\ GraphCyclic
  /\ maxConcurrentNodes = 1
  /\ retryAttempts = 0

\* small workflows with any node data: no nodes, nodes without id, agent kind
\* or model, an edge from or to a missing node
InitDefective ==
  /\ \E n \in 0..MaxSetupNodes :
       /\ nodes \in [1..n -> 0..MaxSetupNodes]
       /\ \A i \in 1..n : nodes[i] \in {0, i}
       /\ nodeData \in [1..n -> [agentType : {"", "queen", "scout"}, model : BOOLEAN]]
       /\ edges \in SeqsUpTo({Edge(s, t) : s \in 1..(n + 1), t \in 1..(n + 1)}, 1)
       /\ n <= 1 \/ StructurallyInvalid \/ MissingModel
  /\ maxConcurrentNodes = 1
  /\ retryAttempts = 0

Init == (InitRunnable \/ InitCyclic \/ InitDefective) /\ InitRest

\* createExecutionState and executions.set: the state starts idle
ServiceCreateState ==
  /\ svcPc = "new"
  /\ runStatus' = "idle"
  /\ svcPc' = "created"
  /\ UNCHANGED <<runError, queueRegistered, svcResult, workflowVars, registryVars, loaderVars,
                 dataVars, observerVars, planVars, queueVars, taskVars, stopVars>>

\* updateExecutionState(executionId, {status: 'preparing'})
ServicePreparing ==
  /\ svcPc = "created"
  /\ runStatus' = "preparing"
  /\ svcPc' = "preparing"
  /\ UNCHANGED <<runError, queueRegistered, svcResult, workflowVars, registryVars, loaderVars,
                 dataVars, observerVars, planVars, queueVars, taskVars, stopVars>>

\* validateWorkflow, createExecutionPlan, the cycle test, the queue and the
\* update to running; a throw goes to the catch block
ServicePrepare ==
  /\ svcPc = "preparing"
  /\ LET p == createExecutionPlan(nodes, edges) IN
     IF validateWorkflow(nodes, nodeData, edges) # {}
       THEN /\ runStatus' = "failed"
            /\ runError' = "Workflow validation failed"
            /\ svcResult' = [returned |-> TRUE, success |-> FALSE,
                             error |-> "Workflow validation failed"]
            /\ svcPc' = "done"
            /\ UNCHANGED <<plan, queueRegistered, loopPc>>
     ELSE IF p.hasCycles
       THEN /\ runStatus' = "failed"
            /\ runError' = "Workflow contains cycles"
            /\ svcResult' = [returned |-> TRUE, success |-> FALSE,
                             error |-> "Workflow contains cycles"]
            /\ svcPc' = "done"
            /\ plan' = p
            /\ UNCHANGED <<queueRegistered, loopPc>>
     ELSE /\ plan' = p
          /\ queueRegistered' = TRUE
          /\ runStatus' = "running"
          /\ svcPc' = "executing"
          /\ loopPc' = "entry"
          /\ UNCHANGED <<runError, svcResult>>
  /\ UNCHANGED <<planState, planErrors, workflowVars, registryVars, loaderVars, dataVars, observerVars,
                 status, runningTasks, nodeResults, isExecuting, events, awaited,
                 loopError, execResult, taskVars, stopVars>>

\* execute() up to the call of the run loop
QueueExecute ==
  /\ loopPc = "entry"
  /\ IF validateExecutionPlan(plan) # {}
       THEN /\ execResult' = [success |-> FALSE, results |-> {},
                              error |-> "Invalid execution plan", returned |-> TRUE]
            /\ loopPc' = "finished"
            /\ UNCHANGED <<isExecuting, nodeResults, runningTasks>>
       ELSE /\ isExecuting' = TRUE
            /\ nodeResults' = [id \in NodeIds |-> NoNodeResult]
            /\ runningTasks' = {}
            /\ loopPc' = "loop"
            /\ UNCHANGED execResult
  /\ UNCHANGED <<status, events, awaited, loopError, workflowVars, registryVars, loaderVars, dataVars,
                 observerVars, planVars, serviceVars, taskVars, stopVars>>

\* nodesToExecute without the slice: the whole batch is started
nodesToExecute_noSlice(readyNodes, availableSlots) == readyNodes

\* readyNodes.slice(0, availableSlots)
nodesToExecute(readyNodes, availableSlots) == Slice(readyNodes, 0, availableSlots)

\* executeNode that emits no node_started event
StartNodes_noEvent(toRun) ==
  LET ids == {toRun[i].id : i \in 1..Len(toRun)} IN
  /\ status' = [id \in NodeIds |->
                  IF id \in ids THEN updateNodeStatus(plan, status, id, "running")[id]
                  ELSE status[id]]
  /\ events' = events
  /\ phase' = [id \in NodeIds |-> IF id \in ids THEN "invoked" ELSE phase[id]]
  /\ attempts' = [id \in NodeIds |-> IF id \in ids THEN retryAttempts ELSE attempts[id]]
  /\ calls' = [id \in NodeIds |-> IF id \in ids THEN calls[id] + 1 ELSE calls[id]]
  /\ runningTasks' = runningTasks \cup ids

\* executeNode for each node of toRun, in order: status running, node_started,
\* executeWithRetry(retryAttempts) started (the handler is invoked in the
\* microtask that follows), runningTasks.set
StartNodes(toRun) ==
  LET ids == {toRun[i].id : i \in 1..Len(toRun)} IN
  /\ status' = [id \in NodeIds |->
                  IF id \in ids THEN updateNodeStatus(plan, status, id, "running")[id]
                  ELSE status[id]]
  /\ events' = events \o [i \in 1..Len(toRun) |-> Event("node_started", toRun[i].id)]
  /\ phase' = [id \in NodeIds |-> IF id \in ids THEN "invoked" ELSE phase[id]]
  /\ attempts' = [id \in NodeIds |-> IF id \in ids THEN retryAttempts ELSE attempts[id]]
  /\ calls' = [id \in NodeIds |-> IF id \in ids THEN calls[id] + 1 ELSE calls[id]]
  /\ runningTasks' = runningTasks \cup ids

\* one pass of the while loop of ExecutionQueue.executeWorkflow, up to its
\* await or to the next pass
LoopIteration ==
  /\ LoopRunnable
  /\ IF isExecutionComplete(plan, status)
       THEN \* the loop ends: Promise.all of what is left, or return
            /\ IF runningTasks # {}
                 THEN loopPc' = "awaitAll" /\ awaited' = runningTasks
                 ELSE loopPc' = "returned" /\ awaited' = {}
            /\ UNCHANGED <<loopError, status, events, runningTasks, taskVars>>
     ELSE IF isExecutionBlocked(plan, status)
       THEN /\ loopPc' = "returned"
            /\ loopError' = "Execution blocked: no nodes available to run"
            /\ awaited' = {}
            /\ UNCHANGED <<status, events, runningTasks, taskVars>>
     ELSE LET readyNodes == getParallelExecutionBatch(plan, status) IN
       IF Len(readyNodes) = 0
         THEN /\ IF runningTasks # {}
                   THEN loopPc' = "awaitRace" /\ awaited' = runningTasks
                   ELSE loopPc' = "returned" /\ awaited' = {}   \* break
              /\ UNCHANGED <<loopError, status, events, runningTasks, taskVars>>
         ELSE LET availableSlots == maxConcurrentNodes - Cardinality(runningTasks)
                  toRun == nodesToExecute(readyNodes, availableSlots)
              IN /\ StartNodes(toRun)
                 /\ IF Cardinality(runningTasks') >= maxConcurrentNodes
                      THEN loopPc' = "awaitRace" /\ awaited' = runningTasks'
                      ELSE loopPc' = "loop" /\ awaited' = {}
                 /\ UNCHANGED <<loopError, outcomes, stale>>
  /\ UNCHANGED <<nodeResults, isExecuting, execResult, workflowVars, registryVars, loaderVars,
                 dataVars, observerVars, planVars, serviceVars, stopVars>>

\* the Promise.all after the loop has settled: executeWorkflow returns
LoopAfterAll ==
  /\ loopPc = "awaitAll"
  /\ \A id \in awaited : phase[id] = "done"
  /\ loopPc' = "returned"
  /\ awaited' = {}
  /\ UNCHANGED <<status, runningTasks, nodeResults, isExecuting, events, loopError,
                 execResult, workflowVars, registryVars, loaderVars, dataVars, observerVars, planVars,
                 serviceVars, taskVars, stopVars>>

\* the rest of execute(): the terminal event, the result, finally
ExecuteFinish ==
  /\ loopPc = "returned"
  /\ events' = Append(events, IF loopError = "" THEN Event("execution_completed", 0)
                              ELSE Event("execution_failed", 0))
  /\ execResult' = [success |-> loopError = "",
                    results |-> {id \in NodeIds : nodeResults[id] # NoNodeResult},
                    error |-> loopError, returned |-> TRUE]
  /\ isExecuting' = FALSE
  /\ loopPc' = "finished"
  /\ UNCHANGED <<status, runningTasks, nodeResults, awaited, loopError, workflowVars,
                 registryVars, loaderVars, dataVars, observerVars, planVars, serviceVars, taskVars,
                 stopVars>>

\* "Update final state" of ExecutionService.executeWorkflow, and its return
ServiceFinish ==
  /\ svcPc = "executing"
  /\ loopPc = "finished"
  /\ runStatus' = IF execResult.success THEN "completed" ELSE "failed"
  /\ runError' = execResult.error
  /\ svcResult' = [returned |-> TRUE, success |-> execResult.success,
                   error |-> execResult.error]
  /\ svcPc' = "done"
  /\ UNCHANGED <<queueRegistered, workflowVars, registryVars, loaderVars, dataVars, observerVars,
                 planVars, queueVars, taskVars, stopVars>>

\* the .then callback of executeNode: result is what the handler invocation
\* that won the race returned, the calls[id]-th of the node
NodeSucceeded(id, result) ==
  /\ nodeResults' = [nodeResults EXCEPT ![id] = [status |-> result, invocation |-> calls[id]]]
  /\ status' = updateNodeStatus(plan, status, id, "completed")
  /\ events' = Append(events, Event("node_completed", id))
  /\ phase' = [phase EXCEPT ![id] = "settled"]
  /\ UNCHANGED attempts

\* the .catch callback of executeNode
NodeFailed(id) ==
  /\ status' = updateNodeStatus(plan, status, id, "error")
  /\ events' = Append(events, Event("node_failed", id))
  /\ phase' = [phase EXCEPT ![id] = "settled"]
  /\ UNCHANGED <<nodeResults, attempts>>

\* executeWithRetry that never retries
mayRetry_never(n) == FALSE

\* the retry test of executeWithRetry with >= for >: one attempt too many
mayRetry_offByOne(n) == n >= 0

\* "if (attempts > 0)" in the catch block of executeWithRetry
mayRetry(n) == n > 0

\* a catch block of executeWithRetry that reports the failure of every
\* attempt, retried or not
AttemptRejected_failsEachAttempt(id) ==
  /\ status' = updateNodeStatus(plan, status, id, "error")
  /\ events' = Append(events, Event("node_failed", id))
  /\ phase' = [phase EXCEPT ![id] = IF mayRetry(attempts[id]) THEN "delay" ELSE "settled"]
  /\ UNCHANGED <<nodeResults, attempts>>

\* the catch block of executeWithRetry: wait retryDelay and try again, or
\* rethrow to the .catch callback
AttemptRejected(id) ==
  IF mayRetry(attempts[id])
    THEN /\ phase' = [phase EXCEPT ![id] = "delay"]
         /\ UNCHANGED <<status, events, nodeResults, attempts>>
    ELSE NodeFailed(id)

\* the handler's promise fulfils first: with a NodeResult of either status
HandlerResolves(id) ==
  /\ ~Sync
  /\ phase[id] = "invoked"
  /\ \E result \in {"success", "error"} :
       /\ NodeSucceeded(id, result)
       /\ outcomes' = [outcomes EXCEPT ![id] = Append(@, IF result = "success" THEN "ok"
                                                          ELSE "error_result")]
  /\ UNCHANGED <<runningTasks, isExecuting, loopPc, awaited, loopError, execResult, calls,
                 stale, workflowVars, registryVars, loaderVars, dataVars, observerVars, planVars,
                 serviceVars, stopVars>>

\* the handler's promise rejects first
HandlerThrows(id) ==
  /\ ~Sync
  /\ phase[id] = "invoked"
  /\ AttemptRejected(id)
  /\ outcomes' = [outcomes EXCEPT ![id] = Append(@, "throw")]
  /\ UNCHANGED <<runningTasks, isExecuting, loopPc, awaited, loopError, execResult, calls,
                 stale, workflowVars, registryVars, loaderVars, dataVars, observerVars, planVars,
                 serviceVars, stopVars>>

\* a timeout that fails the node at once, whatever attempts are left
timeoutRejects_noRetry(id) == NodeFailed(id)

\* the timer of executeNodeWithTimeout rejects the race
timeoutRejects(id) == AttemptRejected(id)

\* the timer fires first; the handler invocation stays in flight
HandlerTimesOut(id) ==
  /\ Quiescent
  /\ phase[id] = "invoked"
  /\ timeoutRejects(id)
  /\ outcomes' = [outcomes EXCEPT ![id] = Append(@, "timeout")]
  /\ stale' = TRUE
  /\ UNCHANGED <<runningTasks, isExecuting, loopPc, awaited, loopError, execResult, calls,
                 workflowVars, registryVars, loaderVars, dataVars, observerVars, planVars, serviceVars,
                 stopVars>>

\* the last timed-out invocation still in flight settles: its race is over
\* and nothing reads the outcome
StaleHandlerSettles ==
  /\ ~Sync
  /\ stale
  /\ stale' = FALSE
  /\ UNCHANGED <<phase, attempts, calls, outcomes, workflowVars, registryVars, loaderVars, dataVars,
                 observerVars, planVars, serviceVars, queueVars, stopVars>>

\* the retryDelay timer fires: executeWithRetry(attempts - 1) invokes the handler
RetryTimerFires(id) ==
  /\ Quiescent
  /\ phase[id] = "delay"
  /\ phase' = [phase EXCEPT ![id] = "invoked"]
  /\ attempts' = [attempts EXCEPT ![id] = @ - 1]
  /\ calls' = [calls EXCEPT ![id] = @ + 1]
  /\ UNCHANGED <<outcomes, stale, workflowVars, registryVars, loaderVars, dataVars, observerVars,
                 planVars, serviceVars, queueVars, stopVars>>

\* the .finally callback of executeNode
TaskFinally(id) ==
  /\ ~Sync
  /\ phase[id] = "settled"
  /\ runningTasks' = runningTasks \ {id}
  /\ phase' = [phase EXCEPT ![id] = "done"]
  /\ UNCHANGED <<status, nodeResults, isExecuting, events, loopPc, awaited, loopError,
                 execResult, attempts, calls, outcomes, stale, workflowVars, registryVars, loaderVars,
                 dataVars, observerVars, planVars, serviceVars, stopVars>>

\* ExecutionService.stopExecution with ExecutionQueue.stop
StopExecution ==
  /\ Quiescent
  /\ stopCalls < MaxStops
  /\ stopCalls' = stopCalls + 1
  /\ IF ~queueRegistered \/ runStatus = "none"
       THEN \* return false
            UNCHANGED <<stopHist, runStatus, runError, isExecuting, runningTasks, events>>
       ELSE /\ IF isExecuting
                 THEN /\ isExecuting' = FALSE
                      /\ runningTasks' = {}
                      /\ events' = Append(events, Event("execution_failed", 0))
                 ELSE UNCHANGED <<isExecuting, runningTasks, events>>
            /\ runStatus' = "failed"
            /\ runError' = "Execution stopped by user"
            /\ stopHist' = IF stopHist.called THEN stopHist
                           ELSE [called |-> TRUE, executing |-> isExecuting,
                                 running |-> runStatus = "running",
                                 pending |-> {id \in PlanIds : status[id] = "pending"}]
  /\ UNCHANGED <<svcPc, queueRegistered, svcResult, status, nodeResults, loopPc, awaited,
                 loopError, execResult, workflowVars, registryVars, loaderVars, dataVars, observerVars,
                 planVars, taskVars>>

Next ==
  \/ ServiceCreateState
  \/ ServicePreparing
  \/ ServicePrepare
  \/ QueueExecute
  \/ LoopIteration
  \/ LoopAfterAll
  \/ ExecuteFinish
  \/ ServiceFinish
  \/ \E id \in NodeIds : HandlerResolves(id)
  \/ \E id \in NodeIds : HandlerThrows(id)
  \/ \E id \in NodeIds : HandlerTimesOut(id)
  \/ StaleHandlerSettles
  \/ \E id \in NodeIds : RetryTimerFires(id)
  \/ \E id \in NodeIds : TaskFinally(id)
  \/ StopExecution

Spec == Init /\ [][Next]_vars

(***************************************************************************)
(* The run of the two fixed workflows of the scenarios: the chain under    *)
(* every option, the diamond with maxConcurrentNodes = 2.                  *)
(***************************************************************************)
InitScenario ==
  /\ \/ /\ nodes = ChainNodes
        /\ edges = ChainEdges
        /\ maxConcurrentNodes \in 1..MaxConcurrent
     \/ /\ nodes = DiamondNodes
        /\ edges = DiamondEdges
        /\ maxConcurrentNodes = 2
  /\ nodeData = DefaultData(Len(nodes))
  /\ retryAttempts \in 0..MaxRetry
  /\ InitRest

SpecScenario == InitScenario /\ [][Next]_vars

(***************************************************************************)
(* An ExecutionQueue built by a caller on a plan of its own and executed:  *)
(* the plan createExecutionPlan gives for any node list and edge list, as  *)
(* it is or with a level removed or a dependency on a missing node added.  *)
(***************************************************************************)
\* the plan without its last level: its nodes are in no level
withoutLastLevel(p) ==
  [p EXCEPT !.levels = SubSeq(@, 1, Len(@) - 1), !.totalLevels = @ - 1]

\* the plan with a dependency of its first node on an id that is no node
withMissingDependency(p) ==
  [p EXCEPT !.nodes[1].dependencies = Append(@, Len(p.nodes) + 1)]

CallerPlans(p) ==
  IF Len(p.nodes) = 0 THEN {p}
  ELSE {p, withoutLastLevel(p), withMissingDependency(p)}

InitQueue ==
  /\ \E n \in 1..MaxQueueNodes :
       /\ nodes = NodeList(n)
       /\ nodeData = DefaultData(n)
       /\ edges \in SeqsUpTo({Edge(s, t) : s \in 1..n, t \in 1..n}, MaxEdges)
  /\ maxConcurrentNodes \in 1..MaxConcurrent
  /\ retryAttempts \in 0..MaxRetry
  /\ InitRest

\* new ExecutionQueue(plan, options), setExecutionHandler and the call of
\* execute()
QueueConstruct ==
  /\ loopPc = "idle"
  /\ planState = "none"
  /\ plan' \in CallerPlans(createExecutionPlan(nodes, edges))
  /\ planState' = "created"
  /\ loopPc' = "entry"
  /\ UNCHANGED <<planErrors, status, runningTasks, nodeResults, isExecuting, events,
                 awaited, loopError, execResult, workflowVars, registryVars, loaderVars, dataVars,
                 observerVars, serviceVars, taskVars, stopVars>>

NextQueue ==
  \/ QueueConstruct
  \/ QueueExecute
  \/ LoopIteration
  \/ LoopAfterAll
  \/ ExecuteFinish
  \/ \E id \in NodeIds : HandlerResolves(id)
  \/ \E id \in NodeIds : HandlerThrows(id)
  \/ \E id \in NodeIds : HandlerTimesOut(id)
  \/ StaleHandlerSettles
  \/ \E id \in NodeIds : RetryTimerFires(id)
  \/ \E id \in NodeIds : TaskFinally(id)

SpecQueue == InitQueue /\ [][NextQueue]_vars

(***************************************************************************)
(* Several executeWorkflow calls on the one ExecutionService, each reduced *)
(* to what it does to the registry: the state and the queue it stores      *)
(* under its run id, and the updates it makes through that id.             *)
(***************************************************************************)
InitRegistryRuns ==
  /\ nodes = NodeList(1)
  /\ nodeData = DefaultData(1)
  /\ edges = <<>>
  /\ maxConcurrentNodes = 1
  /\ retryAttempts = 0
  /\ InitRest

nonRegistryVars ==
  <<workflowVars, planVars, serviceVars, queueVars, taskVars, stopVars, dataVars,
    observerVars, loaderVars>>

\* updateExecutionState(executionId, {status}): no state under the id, no change
updateExecutionState(execs, id, newStatus) ==
  IF execs[id] = NoState THEN execs
  ELSE [execs EXCEPT ![id].status = newStatus]

\* an executeWorkflow call is between its entry and its first await: nothing
\* else runs
RegistrySync == \E q \in Runs : runs[q].pc = "preparing"

\* executeWorkflow up to "Update status to preparing": the run id is made of
\* the workflow id and the clock, and the new state is stored under it
RunStart(r, workflowId) ==
  /\ ~RegistrySync
  /\ runs[r].pc = "new"
  /\ LET id == executionIdOf(workflowId, clock) IN
       /\ executions' = updateExecutionState(
                           [executions EXCEPT ![id] = [owner |-> r, status |-> "idle",
                                                       events |-> <<>>]],
                           id, "preparing")
       /\ runs' = [runs EXCEPT ![r].pc = "preparing", ![r].executionId = id]
  /\ UNCHANGED <<clock, executionQueues, nonRegistryVars>>

\* the queue is stored under the run id and the state set to running
RunRegisterQueue(r) ==
  /\ runs[r].pc = "preparing"
  /\ executionQueues' = [executionQueues EXCEPT ![runs[r].executionId] = r]
  /\ executions' = updateExecutionState(executions, runs[r].executionId, "running")
  /\ runs' = [runs EXCEPT ![r].pc = "running"]
  /\ UNCHANGED <<clock, nonRegistryVars>>

\* the run's queue emits an event: handleExecutionEvent(executionId, event)
\* pushes it to the state stored under the run id
RunQueueEvent(r) ==
  /\ ~RegistrySync
  /\ runs[r].pc = "running"
  /\ runs[r].emitted < MaxRunEvents
  /\ executions' = IF executions[runs[r].executionId] = NoState THEN executions
                   ELSE [executions EXCEPT ![runs[r].executionId].events = Append(@, r)]
  /\ runs' = [runs EXCEPT ![r].emitted = @ + 1]
  /\ UNCHANGED <<clock, executionQueues, nonRegistryVars>>

\* execute() has returned: "Update final state"
RunFinish(r, success) ==
  /\ ~RegistrySync
  /\ runs[r].pc = "running"
  /\ executions' = updateExecutionState(executions, runs[r].executionId,
                                        IF success THEN "completed" ELSE "failed")
  /\ runs' = [runs EXCEPT ![r].pc = "done"]
  /\ UNCHANGED <<clock, executionQueues, nonRegistryVars>>

\* a millisecond passes
ClockTick ==
  /\ clock < MaxClock
  /\ clock' = clock + 1
  /\ UNCHANGED <<executions, executionQueues, runs, nonRegistryVars>>

\* stopExecution(id): false without a queue or a state under the id, else
\* the state under the id is set to failed
StopRun(id) ==
  /\ ~RegistrySync
  /\ executionQueues[id] # 0
  /\ executions[id] # NoState
  /\ executions' = updateExecutionState(executions, id, "failed")
  /\ UNCHANGED <<clock, executionQueues, runs, nonRegistryVars>>

\* completedIds that takes the running states too
completedIds_withRunning(execs) ==
  {id \in DOMAIN execs : execs[id].status \in {"completed", "failed", "running"}}

\* the first forEach of clearCompletedExecutions
completedIds(execs) ==
  {id \in DOMAIN execs : execs[id].status \in {"completed", "failed"}}

\* clearCompletedExecutions: executions.delete and executionQueues.delete for
\* each completed id
ClearCompletedExecutions ==
  /\ ~RegistrySync
  /\ LET ids == completedIds(executions) IN
       /\ executions' = [id \in DOMAIN executions |->
                           IF id \in ids THEN NoState ELSE executions[id]]
       /\ executionQueues' = [id \in DOMAIN executionQueues |->
                                IF id \in ids THEN 0 ELSE executionQueues[id]]
       /\ runs' = [r \in Runs |->
                     IF \E id \in ids : executions[id].owner = r
                       THEN [runs[r] EXCEPT !.purged = TRUE]
                       ELSE runs[r]]
  /\ UNCHANGED <<clock, nonRegistryVars>>

NextRegistry ==
  \/ \E r \in Runs, workflowId \in WorkflowIds : RunStart(r, workflowId)
  \/ \E r \in Runs : RunRegisterQueue(r)
  \/ \E r \in Runs : RunQueueEvent(r)
  \/ \E r \in Runs, success \in BOOLEAN : RunFinish(r, success)
  \/ ClockTick
  \/ \E id \in ExecutionIds : StopRun(id)
  \/ ClearCompletedExecutions

SpecRegistry == InitRegistryRuns /\ [][NextRegistry]_vars

(***************************************************************************)
(* The run under the scheduling JavaScript guarantees: a pending promise   *)
(* continuation runs, a timer fires, and a handler invocation settles or   *)
(* is cut off by its timeout.  Nothing obliges anyone to call              *)
(* stopExecution.                                                          *)
(***************************************************************************)
Progress ==
  \/ ServiceCreateState
  \/ ServicePreparing
  \/ ServicePrepare
  \/ QueueExecute
  \/ LoopIteration
  \/ LoopAfterAll
  \/ ExecuteFinish
  \/ ServiceFinish
  \/ \E id \in NodeIds : HandlerResolves(id)
  \/ \E id \in NodeIds : HandlerThrows(id)
  \/ \E id \in NodeIds : HandlerTimesOut(id)
  \/ \E id \in NodeIds : RetryTimerFires(id)
  \/ \E id \in NodeIds : TaskFinally(id)

Fairness == WF_vars(Progress)

\* the workflows of at most MaxLiveNodes nodes
InitLive == Init /\ Len(nodes) <= MaxLiveNodes

SpecLive == InitLive /\ [][Next]_vars /\ Fairness

(***************************************************************************)
(* Vocabulary of the properties: the event log and the nodes' state.       *)
(***************************************************************************)
HasDependents(y) == \E x \in Range(nodes) : DependsOn(x, y)

EventIndexes(type, id) == {i \in 1..Len(events) : events[i] = Event(type, id)}

CountEvents(type, id) == Cardinality(EventIndexes(type, id))

\* the plan nodes of status running
RunningNodes == {id \in PlanIds : status[id] = "running"}

\* every settled attempt of the node ended in one of kinds, and one has settled
AllOutcomesIn(id, kinds) ==
  /\ Len(outcomes[id]) > 0
  /\ \A i \in 1..Len(outcomes[id]) : outcomes[id][i] \in kinds

(***************************************************************************)
(* Listeners, the mirrored state and the event log.  o is the record of    *)
(* what the service mirrors of a run (exists: executions has the state)    *)
(* and of the history kept about listener calls; thrown tells whether the  *)
(* last call made left by an exception.  throwers are the listeners whose  *)
(* call throws.                                                            *)
(***************************************************************************)
\* a forEach without try/catch: the first exception ends it and leaves it
upToFirstThrower(listeners, throwers) ==
  IF \E i \in 1..Len(listeners) : listeners[i] \in throwers
    THEN LET first == CHOOSE i \in 1..Len(listeners) :
                        /\ listeners[i] \in throwers
                        /\ \A j \in 1..(i - 1) : listeners[j] \notin throwers
         IN [called |-> {listeners[i] : i \in 1..first}, escaped |-> TRUE]
    ELSE [called |-> Range(listeners), escaped |-> FALSE]

\* emitEvent without the try/catch around the listener call
emitEvent_noCatch(listeners, throwers) == upToFirstThrower(listeners, throwers)

\* ExecutionQueue.emitEvent: who is called, and whether an exception leaves
\* the forEach; each call is in a try/catch
emitEvent(listeners, throwers) == [called |-> Range(listeners), escaped |-> FALSE]

\* ExecutionService.notifyStateListeners, likewise
notifyStateListeners(listeners, throwers) ==
  [called |-> Range(listeners), escaped |-> FALSE]

\* a change of the state has been made and notifyStateListeners is called: a
\* registered listener it leaves out has missed the change
notified(o, throwers) ==
  LET n == notifyStateListeners(stateListeners, throwers) IN
  [o EXCEPT !.missed = [l \in Listeners |->
                          IF Includes(stateListeners, l) /\ l \notin n.called
                            THEN @[l] + 1 ELSE @[l]],
            !.escaped = @ \/ n.escaped,
            !.caught = @ \/ (~n.escaped /\ n.called \cap throwers # {}),
            !.thrown = n.escaped]

\* state.events.push(event) and "Limit event history"
pushEvent(evs, event) ==
  LET pushed == Append(evs, event) IN
  IF Len(pushed) > maxEventHistory THEN SliceFrom(pushed, 0 - maxEventHistory)
  ELSE pushed

\* addExecutionEvent that pushes the event and calls no listener
addExecutionEvent_silent(o, event, throwers) ==
  IF ~o.exists \/ ~enableEventLogging THEN [o EXCEPT !.thrown = FALSE]
  ELSE [o EXCEPT !.stateEvents = pushEvent(@, event),
                 !.missed = [l \in Listeners |->
                               IF Includes(stateListeners, l) THEN @[l] + 1 ELSE @[l]],
                 !.thrown = FALSE]

\* ExecutionService.addExecutionEvent
addExecutionEvent(o, event, throwers) ==
  IF ~o.exists \/ ~enableEventLogging THEN [o EXCEPT !.thrown = FALSE]
  ELSE notified([o EXCEPT !.stateEvents = pushEvent(@, event)], throwers)

\* the number of plan nodes of the given status
countStatus(p, st, s) == Cardinality({i \in 1..Len(p.nodes) : st[p.nodes[i].id] = s})

\* getExecutionStats that adds to the counts of the call before, as it would
\* with a stats object kept between calls
getExecutionStats_accumulating(p, st) ==
  [total |-> Len(p.nodes),
   pending |-> countStatus(p, st, "pending") + progressSnapshot.value.pending,
   running |-> countStatus(p, st, "running") + progressSnapshot.value.running,
   completed |-> countStatus(p, st, "completed") + progressSnapshot.value.completed,
   error |-> countStatus(p, st, "error") + progressSnapshot.value.failed]

\* DAGEngine.getExecutionStats: the counts getProgress reads
getExecutionStats(p, st) ==
  [total |-> Len(p.nodes),
   pending |-> countStatus(p, st, "pending"),
   running |-> countStatus(p, st, "running"),
   completed |-> countStatus(p, st, "completed"),
   error |-> countStatus(p, st, "error")]

\* getProgress whose percentage counts the failed nodes as done
getProgress_finishedPercentage(p, st) ==
  LET stats == getExecutionStats(p, st) IN
  [total |-> stats.total, completed |-> stats.completed, running |-> stats.running,
   pending |-> stats.pending, failed |-> stats.error,
   percentage |-> Percentage(stats.completed + stats.error, stats.total)]

\* ExecutionQueue.getProgress
getProgress(p, st) ==
  LET stats == getExecutionStats(p, st) IN
  [total |-> stats.total, completed |-> stats.completed, running |-> stats.running,
   pending |-> stats.pending, failed |-> stats.error,
   percentage |-> Percentage(stats.completed, stats.total)]

\* updateExecutionState(executionId, {progress}): no state, no change and no
\* call
updateProgress(o, progress, throwers) ==
  IF ~o.exists THEN [o EXCEPT !.thrown = FALSE]
  ELSE notified([o EXCEPT !.stateProgress = progress], throwers)

\* updateExecutionState(executionId, {status, ...}), likewise; the status
\* itself is the variable runStatus
updateStatus(o, throwers) ==
  IF ~o.exists THEN [o EXCEPT !.thrown = FALSE] ELSE notified(o, throwers)

NodeEventTypes == {"node_started", "node_completed", "node_failed"}

\* ExecutionService.handleExecutionEvent for the event, emitted when the
\* nodes' statuses are st; an exception of addExecutionEvent ends it
handleExecutionEvent(o, event, st, throwers) ==
  LET o1 == addExecutionEvent(o, event, throwers) IN
  IF o1.thrown THEN o1
  ELSE IF event.type \in NodeEventTypes
    THEN updateProgress(o1, getProgress(plan, st), throwers)
    ELSE o1

\* the queue emits the event: emitEvent calls the queue's listeners, of which
\* "service" is the closure calling handleExecutionEvent; qThrowers and
\* sThrowers are the event and the state listeners that throw
emitted(o, event, st, qThrowers, sThrowers) ==
  LET e == emitEvent(eventListeners, qThrowers)
      o1 == IF "service" \in e.called
              THEN handleExecutionEvent(o, event, st, sThrowers) ELSE o
  IN [o1 EXCEPT !.unheard = [l \in Listeners |->
                               IF Includes(eventListeners, l) /\ l \notin e.called
                                 THEN @[l] + 1 ELSE @[l]],
                !.escaped = @ \/ e.escaped,
                !.caught = @ \/ (~e.escaped /\ e.called \cap qThrowers # {}),
                !.thrown = e.escaped]

\* the mirrored state and the history as a record, and back
Observed ==
  [exists |-> runStatus # "none", stateEvents |-> stateEvents,
   stateProgress |-> stateProgress, missed |-> missed, unheard |-> unheard,
   escaped |-> escaped, caught |-> caught, thrown |-> FALSE]

Observe(o) ==
  /\ stateEvents' = o.stateEvents
  /\ stateProgress' = o.stateProgress
  /\ missed' = o.missed
  /\ unheard' = o.unheard
  /\ escaped' = o.escaped
  /\ caught' = o.caught

(***************************************************************************)
(* A run as its observers see it.  The workflow's nodes are independent    *)
(* and run one at a time (maxConcurrentNodes = 1) with handlers that       *)
(* return or throw at once; the queue has the service's listener, or the   *)
(* listeners of a caller that built the queue itself.                      *)
(***************************************************************************)
\* the sequences of distinct listeners
ListenerLists ==
  {s \in SeqsUpTo(Listeners, Cardinality(Listeners)) :
     \A i \in 1..Len(s), j \in 1..Len(s) : i # j => s[i] # s[j]}

ViaService == Includes(eventListeners, "service")

InitObservers ==
  /\ \E n \in 1..MaxObsNodes : nodes = NodeList(n) /\ nodeData = DefaultData(n)
  /\ edges = <<>>
  /\ maxConcurrentNodes = 1
  /\ retryAttempts = 0
  /\ maxEventHistory \in 0..MaxHistory
  /\ enableEventLogging \in BOOLEAN
  /\ eventListeners \in {<<"service">>} \cup (ListenerLists \ {<<>>})
  /\ stateListeners = <<>>
  /\ stateEvents = <<>>
  /\ stateProgress = NoProgress
  /\ missed = [l \in Listeners |-> 0]
  /\ unheard = [l \in Listeners |-> 0]
  /\ escaped = FALSE
  /\ caught = FALSE
  /\ progressSnapshot = NoSnapshot
  /\ InitCore
  /\ InitNoData

observerConfig == <<maxEventHistory, enableEventLogging, eventListeners>>

\* what no step of the observed run changes
observedFrame ==
  <<workflowVars, registryVars, loaderVars, dataVars, observerConfig, planErrors, svcResult,
    runningTasks, loopPc, awaited, loopError, execResult, phase, attempts, calls, stale,
    stopHist>>

\* addStateListener(l)
AddStateListener(l) ==
  /\ ViaService
  /\ ~Includes(stateListeners, l)
  /\ stateListeners' = SetAdd(stateListeners, l)
  /\ UNCHANGED <<observedFrame, outcomes, plan, planState, svcPc, runStatus, runError,
                 queueRegistered, status, nodeResults, isExecuting, events, stopCalls,
                 stateEvents, stateProgress, missed, unheard, escaped, caught,
                 progressSnapshot>>

\* removeStateListener(l)
RemoveStateListener(l) ==
  /\ Includes(stateListeners, l)
  /\ stateListeners' = SelectSeq(stateListeners, LAMBDA x : x # l)
  /\ missed' = [missed EXCEPT ![l] = 0]
  /\ UNCHANGED <<observedFrame, outcomes, plan, planState, svcPc, runStatus, runError,
                 queueRegistered, status, nodeResults, isExecuting, events, stopCalls,
                 stateEvents, stateProgress, unheard, escaped, caught,
                 progressSnapshot>>

\* executeWorkflow up to the call of execute(): the state is created and set
\* to preparing, the plan and the queue are made, the state is set to running
\* with the initial progress; or the caller's own new ExecutionQueue(plan).
\* Then execute() up to the run loop.
ObservedStart(sThrowers) ==
  /\ svcPc = "new"
  /\ plan' = createExecutionPlan(nodes, edges)
  /\ planState' = "created"
  /\ IF ViaService
       THEN /\ runStatus' = "running"
            /\ queueRegistered' = TRUE
            /\ Observe(updateProgress(
                         updateStatus([Observed EXCEPT !.exists = TRUE], sThrowers),
                         getProgress(plan', status), sThrowers))
       ELSE /\ UNCHANGED <<runStatus, queueRegistered>>
            /\ Observe(Observed)
  /\ isExecuting' = TRUE
  /\ svcPc' = "executing"
  /\ UNCHANGED <<observedFrame, outcomes, runError, status, nodeResults, events, stopCalls,
                 stateListeners, progressSnapshot>>

\* executeNode of the next ready node: running, node_started
ObservedNodeStarted(id, qThrowers, sThrowers) ==
  /\ svcPc = "executing"
  /\ RunningNodes = {}
  /\ LET batch == getParallelExecutionBatch(plan, status)
     IN Len(batch) > 0 /\ batch[1].id = id
  /\ status' = updateNodeStatus(plan, status, id, "running")
  /\ events' = Append(events, Event("node_started", id))
  /\ Observe(emitted(Observed, Event("node_started", id), status', qThrowers, sThrowers))
  /\ UNCHANGED <<observedFrame, outcomes, plan, planState, svcPc, runStatus, runError,
                 queueRegistered, nodeResults, isExecuting, stopCalls, stateListeners,
                 progressSnapshot>>

\* the handler has settled: the .then callback of executeNode stores the
\* result, sets completed and emits node_completed; the .catch callback, for a
\* handler that threw or an exception of the .then callback, sets error and
\* emits node_failed
ObservedNodeSettled(id, succeeded, qThrowers, sThrowers) ==
  /\ id \in RunningNodes
  /\ outcomes' = [outcomes EXCEPT ![id] = <<IF succeeded THEN "ok" ELSE "throw">>]
  /\ nodeResults' = IF succeeded
                      THEN [nodeResults EXCEPT ![id] = [status |-> "success",
                                                        invocation |-> 1]]
                      ELSE nodeResults
  /\ LET completed == updateNodeStatus(plan, status, id, "completed")
         failed == updateNodeStatus(plan, status, id, "error")
         o1 == emitted(Observed, Event("node_completed", id), completed, qThrowers,
                       sThrowers)
     IN IF succeeded /\ ~o1.thrown
          THEN /\ status' = completed
               /\ events' = Append(events, Event("node_completed", id))
               /\ Observe(o1)
          ELSE /\ status' = failed
               /\ events' = (IF succeeded THEN Append(events, Event("node_completed", id))
                             ELSE events) \o <<Event("node_failed", id)>>
               /\ Observe(emitted(IF succeeded THEN o1 ELSE Observed,
                                  Event("node_failed", id), failed, qThrowers, sThrowers))
  /\ UNCHANGED <<observedFrame, plan, planState, svcPc, runStatus, runError,
                 queueRegistered, isExecuting, stopCalls, stateListeners,
                 progressSnapshot>>

\* the run loop has ended: execute() emits execution_completed and returns
ObservedExecuteEnd(qThrowers, sThrowers) ==
  /\ svcPc = "executing"
  /\ isExecutionComplete(plan, status)
  /\ events' = Append(events, Event("execution_completed", 0))
  /\ Observe(emitted(Observed, Event("execution_completed", 0), status, qThrowers,
                     sThrowers))
  /\ isExecuting' = FALSE
  /\ svcPc' = "returned"
  /\ UNCHANGED <<observedFrame, outcomes, plan, planState, runStatus, runError, queueRegistered,
                 status, nodeResults, stopCalls, stateListeners, progressSnapshot>>

\* "Update final state" of executeWorkflow
ObservedFinish(sThrowers) ==
  /\ svcPc = "returned"
  /\ IF ViaService
       THEN /\ runStatus' = "completed"
            /\ runError' = ""
            /\ Observe(updateProgress(Observed, getProgress(plan, status), sThrowers))
       ELSE /\ UNCHANGED <<runStatus, runError>>
            /\ Observe(Observed)
  /\ svcPc' = "done"
  /\ UNCHANGED <<observedFrame, outcomes, plan, planState, queueRegistered, status, nodeResults,
                 isExecuting, events, stopCalls, stateListeners, progressSnapshot>>

\* stopExecution, or stop() of the caller's own queue: execution_failed if
\* the queue is executing, and the state set to failed
ObservedStop(qThrowers, sThrowers) ==
  /\ svcPc \in {"executing", "returned", "done"}
  /\ stopCalls < MaxStops
  /\ stopCalls' = stopCalls + 1
  /\ LET o1 == IF isExecuting
                 THEN emitted(Observed, Event("execution_failed", 0), status, qThrowers,
                              sThrowers)
                 ELSE Observed
     IN IF ViaService
          THEN /\ runStatus' = "failed"
               /\ runError' = "Execution stopped by user"
               /\ Observe(updateStatus(o1, sThrowers))
          ELSE /\ UNCHANGED <<runStatus, runError>>
               /\ Observe(o1)
  /\ events' = IF isExecuting THEN Append(events, Event("execution_failed", 0)) ELSE events
  /\ isExecuting' = FALSE
  /\ UNCHANGED <<observedFrame, outcomes, plan, planState, svcPc, queueRegistered, status,
                 nodeResults, stateListeners, progressSnapshot>>

\* a caller's getProgress() call on the queue
GetProgress ==
  /\ svcPc # "new"
  /\ progressSnapshot.calls < MaxProgressCalls
  /\ progressSnapshot' =
       [calls |-> progressSnapshot.calls + 1, status |-> status,
        value |-> getProgress(plan, status),
        repeated |-> progressSnapshot.calls > 0 /\ progressSnapshot.status = status]
  /\ UNCHANGED <<observedFrame, outcomes, plan, planState, svcPc, runStatus, runError,
                 queueRegistered, status, nodeResults, isExecuting, events, stopCalls,
                 stateListeners, stateEvents, stateProgress, missed, unheard, escaped,
                 caught>>

NextObservers ==
  \/ \E l \in Listeners : AddStateListener(l)
  \/ \E l \in Listeners : RemoveStateListener(l)
  \/ \E sThrowers \in SUBSET Range(stateListeners) : ObservedStart(sThrowers)
  \/ \E id \in NodeIds, qThrowers \in SUBSET (Range(eventListeners) \ {"service"}),
        sThrowers \in SUBSET Range(stateListeners) :
       ObservedNodeStarted(id, qThrowers, sThrowers)
  \/ \E id \in NodeIds, succeeded \in BOOLEAN,
        qThrowers \in SUBSET (Range(eventListeners) \ {"service"}),
        sThrowers \in SUBSET Range(stateListeners) :
       ObservedNodeSettled(id, succeeded, qThrowers, sThrowers)
  \/ \E qThrowers \in SUBSET (Range(eventListeners) \ {"service"}),
        sThrowers \in SUBSET Range(stateListeners) :
       ObservedExecuteEnd(qThrowers, sThrowers)
  \/ \E sThrowers \in SUBSET Range(stateListeners) : ObservedFinish(sThrowers)
  \/ \E qThrowers \in SUBSET (Range(eventListeners) \ {"service"}),
        sThrowers \in SUBSET Range(stateListeners) :
       ObservedStop(qThrowers, sThrowers)
  \/ GetProgress

SpecObservers == InitObservers /\ [][NextObservers]_vars

(***************************************************************************)
(* Properties.                                                             *)
(***************************************************************************)
\* C1: a node leaves pending, has its handler invoked and gets node_started
\* only when every dependency has status completed and its node_completed
\* event is already in the log.
C1_StartAfterDependencies ==
  \A x \in Range(nodes), y \in Range(nodes) :
    DependsOn(x, y) =>
      /\ status[x] # "pending" => status[y] = "completed"
      /\ calls[x] > 0 => status[y] = "completed"
      /\ \A i \in EventIndexes("node_started", x) :
           \E j \in 1..(i - 1) : events[j] = Event("node_completed", y)

C1_Witness ==
  \E x \in Range(nodes), y \in Range(nodes) :
    DependsOn(x, y) /\ status[x] = "running" /\ CountEvents("node_started", x) = 1

\* C2: while no stop has been requested, at most maxConcurrentNodes nodes
\* have status running.
C2_ConcurrencyBound ==
  stopCalls = 0 => Cardinality(RunningNodes) <= maxConcurrentNodes

C2_Witness ==
  /\ stopCalls = 0
  /\ Cardinality(RunningNodes) = maxConcurrentNodes
  /\ \E id \in Range(nodes) : id \notin RunningNodes /\ Len(getReadyNodes(plan, status)) > 0

\* C3: in the plan of an acyclic graph every dependency of a node of level k
\* is in a level of smaller index.
C3_LevelsTopological ==
  (planState # "none" /\ ~GraphCyclic) =>
    \A k \in 1..Len(plan.levels) :
      \A x \in Range(plan.levels[k]), y \in Range(nodes) :
        DependsOn(x, y) => \E j \in 1..(k - 1) : y \in Range(plan.levels[j])

C3_Witness ==
  /\ planState # "none"
  /\ ~GraphCyclic
  /\ Len(plan.levels) = 3
  /\ \E x \in Range(plan.levels[3]), y \in Range(plan.levels[2]) : DependsOn(x, y)

\* C4: the plan of a graph with a dependency cycle has hasCycles = true, no
\* levels, totalLevels = 0 and at least one recorded cycle.
C4_CyclicPlan ==
  (planState # "none" /\ GraphCyclic) =>
    /\ plan.hasCycles
    /\ plan.levels = <<>>
    /\ plan.totalLevels = 0
    /\ Len(plan.cycles) >= 1

C4_Witness ==
  /\ planState # "none"
  /\ GraphCyclic
  /\ \A x \in Range(nodes) : ~DependsOn(x, x)
  /\ plan.hasCycles

\* C5 (Scenario D): when a node without dependents has failed every attempt
\* and every other node is completed, the queue reports success = false and
\* the run's status is failed.
C5_ScenarioD_RunFails ==
  \A b \in Range(nodes) :
    ( /\ svcPc = "done"
      /\ execResult.returned
      /\ stopCalls = 0
      /\ status[b] = "error"
      /\ AllOutcomesIn(b, {"throw", "timeout"})
      /\ ~HasDependents(b)
      /\ Range(nodes) # {b}
      /\ \A a \in Range(nodes) \ {b} : status[a] = "completed" )
    => (~execResult.success /\ runStatus = "failed")

\* C6: a node whose handler returned a NodeResult of status error on every
\* attempt is not marked completed and gets no node_completed event.
C6_ErrorResultIsFailure ==
  \A id \in PlanIds :
    AllOutcomesIn(id, {"error_result"}) =>
      (status[id] # "completed" /\ CountEvents("node_completed", id) = 0)

\* C7: a node whose handler threw on every invocation has had at most
\* retryAttempts + 1 invocations; it is in error exactly when retryAttempts + 1
\* invocations have thrown, and then it has exactly one node_failed event.
C7_AlwaysThrowingHandler ==
  \A id \in PlanIds :
    AllOutcomesIn(id, {"throw"}) =>
      /\ calls[id] <= retryAttempts + 1
      /\ status[id] = "error" <=> Len(outcomes[id]) = retryAttempts + 1
      /\ status[id] = "error" =>
           (calls[id] = retryAttempts + 1 /\ CountEvents("node_failed", id) = 1)
      /\ status[id] # "error" =>
           (status[id] = "running" /\ CountEvents("node_failed", id) = 0)

C7_Witness ==
  \E id \in PlanIds :
    /\ retryAttempts >= 1
    /\ AllOutcomesIn(id, {"throw"})
    /\ status[id] = "error"
    /\ calls[id] = retryAttempts + 1

\* C8: a timeout consumes one attempt exactly as a throw does: after k
\* attempts that threw or timed out the node is still running with
\* retryAttempts - k retries left while k <= retryAttempts, and is in error
\* after exactly retryAttempts + 1 invocations otherwise.
C8_TimeoutIsAFailure ==
  \A id \in PlanIds :
    (AllOutcomesIn(id, {"throw", "timeout"}) /\ Includes(outcomes[id], "timeout")) =>
      LET k == Len(outcomes[id]) IN
      IF k <= retryAttempts
        THEN /\ status[id] = "running"
             /\ \/ phase[id] = "delay" /\ attempts[id] = retryAttempts - (k - 1) /\ calls[id] = k
                \/ phase[id] = "invoked" /\ attempts[id] = retryAttempts - k /\ calls[id] = k + 1
             /\ CountEvents("node_failed", id) = 0
        ELSE /\ k = retryAttempts + 1
             /\ status[id] = "error"
             /\ calls[id] = retryAttempts + 1
             /\ CountEvents("node_failed", id) = 1

C8_Witness ==
  \E id \in PlanIds :
    /\ retryAttempts >= 1
    /\ AllOutcomesIn(id, {"timeout"})
    /\ status[id] = "error"
    /\ calls[id] = retryAttempts + 1

\* C9: once stop() has run on an executing queue, a node that was pending at
\* that moment stays pending: no node_started event, no handler invocation.
C9_NoDispatchAfterStop ==
  stopHist.executing =>
    \A id \in stopHist.pending :
      status[id] = "pending" /\ calls[id] = 0 /\ CountEvents("node_started", id) = 0

\* C10: once stopExecution has returned true for a run that was running, the
\* run's status is failed, and stays failed.
C10_StoppedRunStaysFailed ==
  (stopHist.called /\ stopHist.running) => runStatus = "failed"

\* the moves of a run's status the state machine allows
AllowedStatusMoves ==
  { <<"none", "idle">>, <<"idle", "preparing">>, <<"preparing", "running">>,
    <<"preparing", "failed">>, <<"running", "completed">>, <<"running", "failed">> }

\* C11: a run's status only moves idle -> preparing -> running -> completed or
\* failed (or preparing -> failed): never backwards, and never again once it
\* is completed or failed.
C11_StatusMonotone ==
  [][runStatus' # runStatus => <<runStatus, runStatus'>> \in AllowedStatusMoves]_vars

\* C12: execute() returns success = true only when every plan node has status
\* completed or error.
C12_NoSilentStop ==
  (execResult.returned /\ execResult.success) =>
    \A id \in PlanIds : status[id] \in {"completed", "error"}

\* x depends on y directly or through other nodes
DependsTransitively(x, y) == DependsWithin(x, y, Len(nodes))

\* C13: while a node has status error, every node that depends on it directly
\* or transitively is pending, has had no handler invocation and no
\* node_started event.
C13_FailedNodeDependentsStayPending ==
  \A x \in PlanIds, y \in PlanIds :
    (status[y] = "error" /\ DependsTransitively(x, y)) =>
      /\ status[x] = "pending"
      /\ calls[x] = 0
      /\ CountEvents("node_started", x) = 0

C13_Witness ==
  \E x \in Range(nodes), y \in Range(nodes) :
    /\ DependsTransitively(x, y)
    /\ ~DependsOn(x, y)
    /\ status[y] = "error"
    /\ execResult.returned

\* x depends, directly or transitively, on a node that has status error
DependsOnFailed(x) ==
  \E y \in Range(nodes) : DependsTransitively(x, y) /\ status[y] = "error"

\* C14: the run loop ends with the blocked-execution error only when no node
\* is ready and none is running, and then every node that does not depend on
\* a failed node is completed or error; absent a stop call the same holds
\* whenever execute() has returned: no such node is left undispatched.
C14_IndependentBranchesDrained ==
  /\ loopError # "" =>
       /\ Len(getReadyNodes(plan, status)) = 0
       /\ RunningNodes = {}
       /\ \A x \in Range(nodes) :
            ~DependsOnFailed(x) => status[x] \in {"completed", "error"}
  /\ (stopCalls = 0 /\ execResult.returned) =>
       \A x \in Range(nodes) :
         ~DependsOnFailed(x) => status[x] \in {"completed", "error"}

C14_Witness ==
  \E y \in Range(nodes), z \in Range(nodes) :
    /\ loopError # ""
    /\ status[y] = "error"
    /\ status[z] = "completed"
    /\ \E i \in EventIndexes("node_failed", y), j \in EventIndexes("node_started", z) : i < j

\* C15: absent a stop call, a finished run whose nodes all reached completed
\* or error is reported success = true and marked completed; a run is marked
\* failed only with the blocked-execution error, raised with a node still
\* pending, none ready and none running.
C15_FailedOnlyWhenBlocked ==
  (stopCalls = 0 /\ svcPc = "done" /\ execResult.returned) =>
    /\ (\A id \in PlanIds : status[id] \in {"completed", "error"}) =>
         (execResult.success /\ runStatus = "completed" /\ loopError = "")
    /\ runStatus = "failed" =>
         /\ ~execResult.success
         /\ runError = "Execution blocked: no nodes available to run"
         /\ \E id \in PlanIds : status[id] = "pending"
         /\ Len(getReadyNodes(plan, status)) = 0
         /\ RunningNodes = {}

C15_Witness ==
  /\ stopCalls = 0
  /\ svcPc = "done"
  /\ runStatus = "completed"
  /\ \E id \in PlanIds : status[id] = "error"
  /\ \E id \in PlanIds : status[id] = "completed"

\* C16: every call of executeWorkflow eventually returns, and from then on
\* the run's status is completed or failed, with a non-empty error when it
\* is failed.
C16_RunTerminates ==
  <>[](/\ svcResult.returned
       /\ runStatus \in {"completed", "failed"}
       /\ runStatus = "failed" => runError # "")

C16_Witness ==
  /\ svcResult.returned
  /\ runStatus = "failed"
  /\ runError = "Execution blocked: no nodes available to run"
  /\ \E id \in PlanIds : Includes(outcomes[id], "timeout")

\* no handler has been invoked, no queue registered, no event emitted
NothingExecuted ==
  /\ ~queueRegistered
  /\ loopPc = "idle"
  /\ events = <<>>
  /\ \A id \in NodeIds : calls[id] = 0 /\ status[id] = "pending"

\* executeWorkflow has returned failure and left the run failed with an error
RunRejected ==
  /\ runStatus = "failed"
  /\ runError # ""
  /\ svcResult = [returned |-> TRUE, success |-> FALSE, error |-> runError]

\* C17: a workflow whose edges contain a cycle never becomes running, gets no
\* queue and no handler invocation; executeWorkflow ends it failed with an
\* error, and when the workflow passes structural validation the plan has
\* hasCycles and a recorded cycle that contains a node lying on a cycle.
C17_CyclicWorkflowNeverRuns ==
  GraphCyclic =>
    /\ runStatus \in {"none", "idle", "preparing", "failed"}
    /\ NothingExecuted
    /\ svcPc = "done" => RunRejected
    /\ (svcPc = "done" /\ ~StructurallyInvalid /\ ~MissingModel) =>
         /\ runError = "Workflow contains cycles"
         /\ plan.hasCycles
         /\ \E i \in 1..Len(plan.cycles) :
              \E x \in Range(plan.cycles[i]) : DependsWithin(x, x, Len(nodes))

C17_Witness ==
  /\ GraphCyclic
  /\ \A x \in Range(nodes) : ~DependsOn(x, x)
  /\ svcPc = "done"
  /\ runError = "Workflow contains cycles"

\* C18: a workflow with no nodes, a node without id or agent kind, or a
\* dangling edge never becomes running and has no handler invoked; the
\* planner is not reached and executeWorkflow returns success = false with
\* the validation error, the run's status being failed.
C18_StructuralErrorRejected ==
  StructurallyInvalid =>
    /\ runStatus \in {"none", "idle", "preparing", "failed"}
    /\ NothingExecuted
    /\ plan = NoPlan
    /\ svcPc = "done" => (RunRejected /\ runError = "Workflow validation failed")

C18_Witness ==
  /\ svcPc = "done"
  /\ runStatus = "failed"
  /\ ~DanglingEdge
  /\ Len(nodes) = 2
  /\ nodes[1] = 1 /\ nodeData[1].agentType = "scout"
  /\ nodes[2] = 2 /\ nodeData[2].agentType = ""

\* the plan is cyclic, has a node in no level, or a dependency on a missing node
PlanDefect ==
  \/ plan.hasCycles
  \/ \E i \in 1..Len(plan.nodes) :
       \/ \A k \in 1..Len(plan.levels) : ~Includes(plan.levels[k], plan.nodes[i].id)
       \/ \E j \in 1..Len(plan.nodes[i].dependencies) :
            plan.nodes[i].dependencies[j] \notin PlanIds

\* C19: execute() on a plan that is cyclic, has a node in no level or a
\* dependency on a missing node returns success = false with an error and
\* leaves every node pending: no handler invocation, no event.
C19_InvalidPlanRefused ==
  (planState = "created" /\ PlanDefect) =>
    /\ \A id \in NodeIds : status[id] = "pending" /\ calls[id] = 0
    /\ events = <<>>
    /\ loopPc \in {"entry", "finished"}
    /\ loopPc = "finished" =>
         execResult = [success |-> FALSE, results |-> {},
                       error |-> "Invalid execution plan", returned |-> TRUE]

C19_Witness ==
  /\ planState = "created"
  /\ ~plan.hasCycles
  /\ PlanDefect
  /\ Len(plan.levels) = 1
  /\ execResult.returned

\* C20: any two runs that have started have distinct run ids, and every event
\* in a run's ExecutionState was emitted by the queue of the run that
\* created the state.
C20_RunsIsolated ==
  /\ \A r1 \in Runs, r2 \in Runs :
       (r1 # r2 /\ runs[r1].pc # "new" /\ runs[r2].pc # "new") =>
         runs[r1].executionId # runs[r2].executionId
  /\ \A id \in ExecutionIds :
       \A i \in 1..Len(executions[id].events) :
         executions[id].events[i] = executions[id].owner

\* a recorded cycle that is a cycle of the graph: it returns to its first id
\* and each id depends on the next
GenuineCycle(c) ==
  /\ Len(c) >= 2
  /\ c[1] = c[Len(c)]
  /\ \A j \in 1..(Len(c) - 1) : DependsOn(c[j], c[j + 1])

\* C30: every cycle recorded in the plan of a cyclic graph starts and ends
\* with the same node id, and each id in it depends on the id that follows.
C30_RecordedCyclesGenuine ==
  (planState # "none" /\ GraphCyclic) =>
    \A i \in 1..Len(plan.cycles) : GenuineCycle(plan.cycles[i])

\* no stop was requested and every handler invocation so far returned a
\* successful result before its timeout
AllHandlersSucceed ==
  /\ stopCalls = 0
  /\ \A id \in NodeIds : \A i \in 1..Len(outcomes[id]) : outcomes[id][i] = "ok"

IsPrefix(s, t) == Len(s) <= Len(t) /\ s = SubSeq(t, 1, Len(s))

\* the event order of Scenario A
ScenarioAEvents ==
  <<Event("node_started", 1), Event("node_completed", 1),
    Event("node_started", 2), Event("node_completed", 2),
    Event("node_started", 3), Event("node_completed", 3),
    Event("execution_completed", 0)>>

\* C26 (Scenario A): in a run of the chain whose handlers all succeed the
\* events are emitted in the order started/completed of A, of B, of C, then
\* execution_completed, and when execute() has returned all of them have been
\* emitted and the three nodes are completed.
C26_ScenarioA_ChainOrder ==
  (nodes = ChainNodes /\ edges = ChainEdges /\ AllHandlersSucceed) =>
    /\ IsPrefix(events, ScenarioAEvents)
    /\ loopPc = "finished" =>
         /\ events = ScenarioAEvents
         /\ \A id \in Range(ChainNodes) : status[id] = "completed"
         /\ execResult.success

C26_Witness ==
  /\ nodes = ChainNodes
  /\ edges = ChainEdges
  /\ AllHandlersSucceed
  /\ svcPc = "done"
  /\ events = ScenarioAEvents
  /\ runStatus = "completed"

\* C27 (Scenario B): in a run of the diamond with maxConcurrentNodes = 2, B
\* and C are started only after A is completed, D is started only after both
\* B and C are completed, and (the witness) B and C are running at the same
\* time in some state.
C27_ScenarioB_Diamond ==
  (nodes = DiamondNodes /\ edges = DiamondEdges /\ maxConcurrentNodes = 2) =>
    /\ \A id \in {2, 3} :
         /\ status[id] # "pending" => status[1] = "completed"
         /\ \A i \in EventIndexes("node_started", id) :
              \E j \in 1..(i - 1) : events[j] = Event("node_completed", 1)
    /\ status[4] # "pending" => status[2] = "completed" /\ status[3] = "completed"
    /\ \A i \in EventIndexes("node_started", 4) :
         /\ \E j \in 1..(i - 1) : events[j] = Event("node_completed", 2)
         /\ \E j \in 1..(i - 1) : events[j] = Event("node_completed", 3)

C27_Witness ==
  /\ nodes = DiamondNodes
  /\ edges = DiamondEdges
  /\ maxConcurrentNodes = 2
  /\ status[1] = "completed"
  /\ status[2] = "running"
  /\ status[3] = "running"
  /\ runningTasks = {2, 3}

\* the node's first handler invocation was cut off by the timeout and its
\* second returned a successful result
TimeoutThenSuccess(id) == outcomes[id] = <<"timeout", "ok">>

\* C28 (Scenario E): with retryAttempts >= 1, a node whose first invocation
\* timed out stays running with no node_failed event until its second
\* invocation settles, and when that invocation succeeds the node is
\* completed, no node_failed event was emitted for it, its one node_completed
\* event is its last event, and the stored result is the one the second
\* invocation returned.
C28_ScenarioE_TimeoutThenSuccess ==
  \A id \in PlanIds :
    (retryAttempts >= 1 /\ Len(outcomes[id]) >= 1 /\ outcomes[id][1] = "timeout") =>
      /\ Len(outcomes[id]) = 1 =>
           /\ status[id] = "running"
           /\ CountEvents("node_failed", id) = 0
           /\ nodeResults[id] = NoNodeResult
      /\ TimeoutThenSuccess(id) =>
           /\ status[id] = "completed"
           /\ CountEvents("node_failed", id) = 0
           /\ CountEvents("node_completed", id) = 1
           /\ \A i \in EventIndexes("node_completed", id) :
                \A j \in (i + 1)..Len(events) : events[j].nodeId # id
           /\ nodeResults[id] = [status |-> "success", invocation |-> 2]
           /\ calls[id] = 2

C28_Witness ==
  \E id \in PlanIds :
    /\ TimeoutThenSuccess(id)
    /\ status[id] = "completed"
    /\ svcPc = "done"
    /\ stopCalls = 0

(***************************************************************************)
(* The data a handler is given.  A run is reduced to its data flow: a      *)
(* ready node's handler is invoked with the inputs collectNodeInputs       *)
(* gathers and its result is stored, in one step.                          *)
(***************************************************************************)
\* Object.entries(outputs).forEach(([key, payload]) => inputs[key] = payload)
mergeOutputs(inputs, outputs) ==
  [k \in PortNames |-> IF outputs[k] # NoPayload THEN outputs[k] ELSE inputs[k]]

\* "for (const depId of executionNode.dependencies)" from the i-th dependency
\* on; a dependency without a stored result has no entries to merge
RECURSIVE collectFrom(_, _, _, _)
collectFrom(dependencies, i, outputsOf, inputs) ==
  IF i > Len(dependencies) THEN inputs
  ELSE collectFrom(dependencies, i + 1, outputsOf,
                   mergeOutputs(inputs, outputsOf[dependencies[i]]))

collectNodeInputs(executionNode, outputsOf) ==
  collectFrom(executionNode.dependencies, 1, outputsOf, NoEntries)

\* workflows whose edges run from a lower to a higher id and name an output
\* port of their source and an input port of their target
InitInputs ==
  /\ \E n \in 2..MaxPortNodes :
       /\ nodes = NodeList(n)
       /\ nodeData = DefaultData(n)
       /\ edges \in SeqsUpTo({e \in {Edge(s, t) : s \in 1..n, t \in 1..n} :
                               e.source < e.target}, MaxPortEdges)
  /\ edgePorts \in [1..Len(edges) -> [sourceHandle : PortNames, targetHandle : PortNames]]
  /\ resultOutputs = [id \in NodeIds |-> NoEntries]
  /\ handlerInputs = [id \in NodeIds |-> NoEntries]
  /\ maxConcurrentNodes = 1
  /\ retryAttempts = 0
  /\ InitCore
  /\ InitNoObservers

\* executeNode of a ready node whose handler returns outputs on the given
\* ports: collectNodeInputs, the handler call, nodeResults.set, completed
NodeRuns(id, ports) ==
  /\ planState = "created"
  /\ \E i \in 1..Len(plan.nodes) :
       /\ plan.nodes[i].id = id
       /\ Includes(getReadyNodes(plan, status), plan.nodes[i])
       /\ handlerInputs' =
            [handlerInputs EXCEPT ![id] = collectNodeInputs(plan.nodes[i], resultOutputs)]
  /\ resultOutputs' =
       [resultOutputs EXCEPT ![id] =
          [k \in PortNames |-> IF k \in ports THEN Payload(id, k) ELSE NoPayload]]
  /\ nodeResults' = [nodeResults EXCEPT ![id] = [status |-> "success", invocation |-> 1]]
  /\ status' = updateNodeStatus(plan, status, id, "completed")
  /\ UNCHANGED <<edgePorts, runningTasks, isExecuting, events, loopPc, awaited, loopError,
                 execResult, workflowVars, registryVars, loaderVars, observerVars, planVars,
                 serviceVars, taskVars, stopVars>>

NextInputs ==
  \/ PlanCreate
  \/ \E id \in NodeIds, ports \in SUBSET PortNames : NodeRuns(id, ports)

SpecInputs == InitInputs /\ [][NextInputs]_vars

\* C29: a handler's input set has an entry under key k only if some edge into
\* the node names k as its target port, and the entry is the payload the
\* edge's source node produced on the edge's source port.
C29_InputsFollowEdgePorts ==
  \A n \in PlanIds, k \in PortNames :
    handlerInputs[n][k] # NoPayload =>
      \E i \in 1..Len(edges) :
        /\ edges[i].target = n
        /\ edgePorts[i].targetHandle = k
        /\ handlerInputs[n][k] = resultOutputs[edges[i].source][edgePorts[i].sourceHandle]

\* a step that purged the state of some run
PurgeStep == \E r \in Runs : runs'[r].purged /\ ~runs[r].purged

\* the state of run r is in the registry
Registered(r) == \E id \in ExecutionIds : executions[id].owner = r

\* C24: a purge removes the state and the queue of every run whose status is
\* completed or failed and leaves every other state and queue as they were,
\* and the state of a purged run is never in the registry again.
C24_PurgeExactlyTerminalRuns ==
  /\ [][PurgeStep =>
          \A id \in ExecutionIds :
            IF executions[id].status \in {"completed", "failed"}
              THEN executions'[id] = NoState /\ executionQueues'[id] = 0
              ELSE /\ executions'[id] = executions[id]
                   /\ executionQueues'[id] = executionQueues[id]]_vars
  /\ [](\A r \in Runs : runs[r].purged => ~Registered(r))

\* a run was stopped, purged while its queue went on, and has finished, and
\* the other run's state is still registered as running
C24_Witness ==
  \E r \in Runs, q \in Runs :
    /\ runs[r].purged
    /\ runs[r].pc = "done"
    /\ runs[r].emitted > 0
    /\ Registered(q)
    /\ executions[runs[q].executionId].status = "running"

\* the last n elements of s, all of s if it has fewer
LastN(s, n) == IF Len(s) > n THEN SubSeq(s, Len(s) - n + 1, Len(s)) ELSE s

\* C21: with event logging on, the state's event log holds at most
\* maxEventHistory entries, and they are the most recently emitted events of
\* the run's queue in emission order.
C21_EventLogBounded ==
  (ViaService /\ enableEventLogging) =>
    /\ Len(stateEvents) <= maxEventHistory
    /\ stateEvents = LastN(events, maxEventHistory)

\* C22: no exception of an event listener or a state listener leaves
\* emitEvent or notifyStateListeners, every listener of the queue is called
\* for every event, and the nodes' statuses and results and the run's final
\* status are what the handlers' outcomes make them: completed with a stored
\* result for a handler that returned, error for one that threw, and the run
\* completed when no stop was requested.
C22_ListenerExceptionsContained ==
  /\ ~escaped
  /\ \A l \in Listeners : unheard[l] = 0
  /\ \A id \in PlanIds :
       /\ outcomes[id] = <<"ok">> =>
            status[id] = "completed" /\ nodeResults[id].status = "success"
       /\ outcomes[id] = <<"throw">> =>
            status[id] = "error" /\ nodeResults[id] = NoNodeResult
  /\ (svcPc = "done" /\ ViaService /\ stopCalls = 0) => runStatus = "completed"

\* a listener has thrown, and the run has finished with a node completed
C22_Witness ==
  /\ caught
  /\ svcPc = "done"
  /\ \E id \in PlanIds : status[id] = "completed"

StatusCount(s) == Cardinality({id \in PlanIds : status[id] = s})

LevelPlaces(id) ==
  {kj \in (1..Len(plan.levels)) \X (1..MaxNodes) :
     kj[2] <= Len(plan.levels[kj[1]]) /\ plan.levels[kj[1]][kj[2]] = id}

\* the level field of the plan's node with the id
LevelOf(id) ==
  LET i == CHOOSE i \in 1..Len(plan.nodes) : plan.nodes[i].id = id IN plan.nodes[i].level

\* C31: the plan of an acyclic graph over distinct node ids has hasCycles =
\* false and one ExecutionNode per node; every node id is at exactly one
\* place of the levels, and the node's level field is the index of that
\* level, never -1: 0 exactly when the node has no dependency, otherwise one
\* more than the largest level among its dependencies.
C31_LevelsOfAcyclicPlan ==
  (planState # "none" /\ ~GraphCyclic) =>
    /\ ~plan.hasCycles
    /\ Len(plan.nodes) = Len(nodes)
    /\ plan.totalLevels = Len(plan.levels)
    /\ \A i \in 1..Len(nodes) :
         LET id == nodes[i]
             level == plan.nodes[i].level
             deps == {y \in Range(nodes) : DependsOn(id, y)}
         IN /\ plan.nodes[i].id = id
            /\ Cardinality(LevelPlaces(id)) = 1
            /\ level # -1
            /\ \A kj \in LevelPlaces(id) : level = kj[1] - 1
            /\ (level = 0) <=> (deps = {})
            /\ deps # {} =>
                 /\ \A y \in deps : LevelOf(y) < level
                 /\ \E y \in deps : LevelOf(y) = level - 1

\* an acyclic plan of three levels in which a node of the last level depends
\* on a node of level 0 and on a node of level 1
C31_Witness ==
  /\ planState # "none"
  /\ ~GraphCyclic
  /\ Len(plan.levels) = 3
  /\ \E x, y, z \in Range(nodes) :
       /\ LevelOf(x) = 2 /\ LevelOf(y) = 0 /\ LevelOf(z) = 1
       /\ DependsOn(x, y) /\ DependsOn(x, z)

(***************************************************************************)
(* Runs of the workflows over MaxNodes nodes whose edges lead from a       *)
(* smaller id to a larger one: ready nodes of different levels occur, for  *)
(* instance a root still pending beside the dependent of a finished root.  *)
(* Nodes run one at a time with retries, or several at a time without.     *)
(***************************************************************************)
InitBatch ==
  /\ nodes = NodeList(MaxNodes)
  /\ nodeData = DefaultData(MaxNodes)
  /\ \E E \in SUBSET {Edge(s, t) : s \in 1..MaxNodes, t \in 1..MaxNodes} :
       /\ \A e \in E : e.source < e.target
       /\ edges = EdgeList(E)
  /\ maxConcurrentNodes \in 1..MaxConcurrent
  /\ retryAttempts \in 0..MaxRetry
  /\ maxConcurrentNodes = 1 \/ retryAttempts = 0
  /\ InitRest

SpecBatch == InitBatch /\ [][Next]_vars

\* the ids of the ready nodes: pending, with every dependency completed
ReadyIds ==
  {id \in PlanIds : /\ status[id] = "pending"
                    /\ \A y \in PlanIds : DependsOn(id, y) => status[y] = "completed"}

\* the ready nodes of the lowest level among the ready nodes
BatchIds == {id \in ReadyIds : \A other \in ReadyIds : LevelOf(id) <= LevelOf(other)}

\* in every state: getParallelExecutionBatch returns, once each, exactly
\* the ready nodes whose level is the minimum level among the ready nodes,
\* and the empty list exactly when no node is ready.
BatchIsLowestReadyLevel ==
  LET batch == getParallelExecutionBatch(plan, status)
  IN /\ {batch[i].id : i \in 1..Len(batch)} = BatchIds
     /\ Len(batch) = Cardinality(BatchIds)
     /\ (Len(batch) = 0) <=> (ReadyIds = {})

\* in every step: a node the run loop dispatches (pending to running) is
\* a node of the batch of the state before the step.
DispatchFromBatch ==
  \A id \in PlanIds :
    (status[id] = "pending" /\ status'[id] = "running") => id \in BatchIds

\* C32: getParallelExecutionBatch returns exactly the ready nodes of the
\* minimum ready level, the empty list exactly when no node is ready, and
\* the run loop dispatches only nodes of that batch.
C32_BatchIsLowestReadyLevel == [](BatchIsLowestReadyLevel) /\ [][DispatchFromBatch]_vars

\* a node has completed and ready nodes of two levels wait: the batch
\* leaves out the ready node of the higher level
C32_Witness ==
  /\ LoopRunnable
  /\ \E x \in BatchIds, y \in ReadyIds : LevelOf(x) < LevelOf(y)
  /\ \E z \in PlanIds : status[z] = "completed"

\* the moves of a node's status
NodeStatusMoves ==
  { <<"pending", "running">>, <<"running", "completed">>, <<"running", "error">> }

\* in every step: a node's status changes only from pending to running,
\* from running to completed or from running to error.
NodeStatusStep ==
  \A id \in DOMAIN status :
    status'[id] # status[id] => <<status[id], status'[id]>> \in NodeStatusMoves

\* in every state: at most one node_started event per node, and at most
\* one node_completed or node_failed event.
NodeEventsOnce ==
  \A id \in PlanIds :
    /\ CountEvents("node_started", id) <= 1
    /\ CountEvents("node_completed", id) + CountEvents("node_failed", id) <= 1

\* C33: within one run a node's status only moves pending -> running ->
\* completed or pending -> running -> error, completed and error are never
\* left, and the node has at most one node_started event and at most one of
\* node_completed and node_failed, whatever the retries and the handler
\* invocations that settle after their timeout.
C33_NodeStatusMonotone == [][NodeStatusStep]_vars /\ []NodeEventsOnce

\* a node completed on its second invocation, after a timeout whose handler
\* invocation has settled since; another node failed after a retry
C33_Witness ==
  /\ \E id \in PlanIds :
       /\ status[id] = "completed"
       /\ outcomes[id] = <<"timeout", "ok">>
       /\ ~stale
       /\ CountEvents("node_started", id) = 1
       /\ CountEvents("node_completed", id) = 1
  /\ \E id \in PlanIds :
       /\ status[id] = "error"
       /\ Len(outcomes[id]) = 2
       /\ CountEvents("node_failed", id) = 1

\* the ids of the plan's completed nodes
CompletedIds == {id \in PlanIds : status[id] = "completed"}

\* the keys of ExecutionState.results: the map of createExecutionState until
\* the final update stores the map that execute() returned
stateResults == IF svcPc = "done" /\ svcResult.returned /\ execResult.returned
                  THEN execResult.results ELSE {}

\* C34: the queue's result map has an entry for a node exactly when the
\* node's status is completed; the results that execute() returned, and the
\* results stored in the final ExecutionState, are those of exactly the
\* completed nodes, whether the run succeeded or failed.
C34_ResultsAreCompletedNodes ==
  /\ \A id \in PlanIds : (nodeResults[id] # NoNodeResult) <=> (status[id] = "completed")
  /\ execResult.returned => execResult.results = CompletedIds
  /\ (svcPc = "done" /\ svcResult.returned) => stateResults = CompletedIds

\* the indexes of the terminal events of the run
TerminalEvents ==
  {i \in 1..Len(events) : events[i].type \in {"execution_completed", "execution_failed"}}

\* C35: a run of a queue whose plan validated emits one terminal event,
\* execution_completed or execution_failed: never a second one, the event is
\* there once execute() has returned, and it is the last event of the run, so
\* no node event follows it, stop() calls included.
C35_OneTerminalEventLast ==
  /\ Cardinality(TerminalEvents) <= 1
  /\ \A i \in TerminalEvents : i = Len(events)
  /\ (execResult.returned /\ validateExecutionPlan(plan) = {}) =>
       Cardinality(TerminalEvents) = 1

\* C36: a stopExecution call for a run id the service does not know, or for a
\* run whose status is already completed or failed, leaves the run's status,
\* error and results as they are.
C36_StopNothingToStop ==
  [][(stopCalls' # stopCalls /\ (~queueRegistered \/ runStatus \in {"none", "completed", "failed"}))
       => (runStatus' = runStatus /\ runError' = runError /\ stateResults' = stateResults)]_vars

\* the snapshot getProgress() returns in the current state
Snapshot == getProgress(plan, status)

\* the counters of a snapshot add up, none is negative, and the percentage
\* is completed / total * 100, or 0 when total is 0
ConsistentProgress(s) ==
  /\ s.total = s.completed + s.running + s.pending + s.failed
  /\ s.completed >= 0 /\ s.running >= 0 /\ s.pending >= 0 /\ s.failed >= 0
  /\ s.percentage = IF s.total = 0 THEN <<0, 1>> ELSE <<s.completed * 100, s.total>>
  /\ (s.percentage[1] = 100 * s.percentage[2]) => (s.total > 0 /\ s.completed = s.total)

\* C37: in the snapshot getProgress() returns at any point, and in the
\* progress stored in the ExecutionState, total is the sum of completed,
\* running, pending and failed, no counter is negative, and the percentage is
\* completed / total * 100, or 0 for a plan without nodes: it is 100 only
\* when every node is completed.
C37_ProgressConsistent ==
  /\ ConsistentProgress(Snapshot)
  /\ ConsistentProgress(stateProgress)
  /\ progressSnapshot.calls > 0 => ConsistentProgress(progressSnapshot.value)
  /\ Snapshot.total = Len(plan.nodes)
  /\ (Snapshot.percentage[1] = 100 * Snapshot.percentage[2]) =>
       \A id \in PlanIds : status[id] = "completed"

\* a snapshot taken during a run, with a node completed, one in error and
\* none left pending or running: the percentage is below 100
C37_Witness ==
  /\ progressSnapshot.calls > 0
  /\ progressSnapshot.status = status
  /\ Snapshot.completed = 1
  /\ Snapshot.failed = 1
  /\ Snapshot.total = 2

(***************************************************************************)
(* ModelLoader: loadModel calls, the pipeline loads they start, and the    *)
(* unload calls, interleaved.  A loadModel call runs to its await without  *)
(* interruption; when a pipeline load settles, the continuation of the     *)
(* call that started it and those of the calls that were handed its        *)
(* promise run before any other call.  A pipeline is named by the number   *)
(* of its load.                                                            *)
(***************************************************************************)
MaxLoadCalls == 3

MaxUnloads == 1

\* a loadModel call: load is the load whose promise it awaits (0: none),
\* result the pipeline it returned (0: not returned, -1: it threw), fresh
\* (history) tells that the id was not unloaded after the call was made
LoadCall(id, load, result) == [id |-> id, load |-> load, result |-> result, fresh |-> TRUE]

\* isModelLoaded(modelId)
isModelLoaded(modelId) == loadedModels[modelId] # 0

\* getLoadedModel(modelId): the pipeline, 0 for null
getLoadedModel(modelId) == loadedModels[modelId]

\* a loader that never finds a load in progress
isModelLoading_never(modelId) == FALSE

\* isModelLoading(modelId), the test of "Check if model is already loading"
isModelLoading(modelId) == loadingPromises[modelId] # 0

loaderFrame ==
  <<workflowVars, registryVars, dataVars, observerVars, planVars, serviceVars, queueVars,
    taskVars, stopVars>>

\* loadModel(modelId, onProgress) up to its return or its await
LoadModel(modelId, onProgress) ==
  /\ Len(loadCalls) < MaxLoadCalls
  /\ IF modelId \in RegistryIds /\ isModelLoaded(modelId)
       THEN \* "already loaded": the call returns the pipeline
            /\ loadCalls' = Append(loadCalls, LoadCall(modelId, 0, getLoadedModel(modelId)))
            /\ unloadedSince' = [unloadedSince EXCEPT ![modelId] = FALSE]
            /\ UNCHANGED <<loadingPromises, progressCallbacks, loads>>
     ELSE IF modelId \in RegistryIds /\ isModelLoading(modelId)
       THEN \* "already loading": the call returns the stored promise
            /\ loadCalls' = Append(loadCalls, LoadCall(modelId, loadingPromises[modelId], 0))
            /\ UNCHANGED <<loadingPromises, progressCallbacks, loads, unloadedSince>>
     ELSE IF modelId \notin RegistryIds
       THEN \* "Unknown model"
            /\ loadCalls' = Append(loadCalls, LoadCall(modelId, 0, -1))
            /\ UNCHANGED <<loadingPromises, progressCallbacks, loads, unloadedSince>>
     ELSE \* the callback is stored, loadModelInternal calls pipeline(), the
          \* promise is stored, and the call awaits it
          /\ progressCallbacks' = IF onProgress THEN progressCallbacks \cup {modelId}
                                  ELSE progressCallbacks
          /\ loads' = Append(loads, [id |-> modelId, state |-> "pending"])
          /\ loadingPromises' = [loadingPromises EXCEPT ![modelId] = Len(loads) + 1]
          /\ loadCalls' = Append(loadCalls, LoadCall(modelId, Len(loads) + 1, 0))
          /\ UNCHANGED unloadedSince
  /\ UNCHANGED <<loadedModels, unloadCalls, loaderFrame>>

\* the pipeline() promise of load n settles.  The call that started the load
\* goes on after its await: on success loadedModels.set, and in both cases
\* progressCallbacks.delete and loadingPromises.delete, by model id; every
\* call awaiting the promise returns the pipeline or throws
LoadSettles(n, ok) ==
  /\ n \in 1..Len(loads)
  /\ loads[n].state = "pending"
  /\ LET modelId == loads[n].id IN
     /\ loads' = [loads EXCEPT ![n].state = IF ok THEN "fulfilled" ELSE "rejected"]
     /\ loadedModels' = IF ok THEN [loadedModels EXCEPT ![modelId] = n] ELSE loadedModels
     /\ progressCallbacks' = progressCallbacks \ {modelId}
     /\ loadingPromises' = [loadingPromises EXCEPT ![modelId] = 0]
     /\ loadCalls' = [c \in 1..Len(loadCalls) |->
                        IF loadCalls[c].load = n /\ loadCalls[c].result = 0
                          THEN [loadCalls[c] EXCEPT !.result = IF ok THEN n ELSE -1]
                          ELSE loadCalls[c]]
     /\ unloadedSince' =
          IF ok /\ \E c \in 1..Len(loadCalls) : loadCalls[c].load = n /\ loadCalls[c].fresh
            THEN [unloadedSince EXCEPT ![modelId] = FALSE]
            ELSE unloadedSince
  /\ UNCHANGED <<unloadCalls, loaderFrame>>

\* unloadModel(modelId)
UnloadModel(modelId) ==
  /\ unloadCalls < MaxUnloads
  /\ unloadCalls' = unloadCalls + 1
  /\ loadedModels' = [loadedModels EXCEPT ![modelId] = 0]
  /\ loadCalls' = [c \in 1..Len(loadCalls) |->
                     IF loadCalls[c].id = modelId THEN [loadCalls[c] EXCEPT !.fresh = FALSE]
                     ELSE loadCalls[c]]
  /\ unloadedSince' = [unloadedSince EXCEPT ![modelId] = TRUE]
  /\ UNCHANGED <<loadingPromises, progressCallbacks, loads, loaderFrame>>

\* unloadAllModels()
UnloadAllModels ==
  /\ unloadCalls < MaxUnloads
  /\ unloadCalls' = unloadCalls + 1
  /\ loadedModels' = [id \in RegistryIds |-> 0]
  /\ loadingPromises' = [id \in RegistryIds |-> 0]
  /\ progressCallbacks' = {}
  /\ loadCalls' = [c \in 1..Len(loadCalls) |-> [loadCalls[c] EXCEPT !.fresh = FALSE]]
  /\ unloadedSince' = [id \in RegistryIds |-> TRUE]
  /\ UNCHANGED <<loads, loaderFrame>>

InitLoader ==
  /\ nodes = NodeList(1)
  /\ nodeData = DefaultData(1)
  /\ edges = <<>>
  /\ maxConcurrentNodes = 1
  /\ retryAttempts = 0
  /\ InitRest

NextLoader ==
  \/ \E modelId \in RegistryIds \cup {UnknownModelId}, onProgress \in BOOLEAN :
       LoadModel(modelId, onProgress)
  \/ \E n \in 1..MaxLoadCalls, ok \in BOOLEAN : LoadSettles(n, ok)
  \/ \E modelId \in RegistryIds : UnloadModel(modelId)
  \/ UnloadAllModels

SpecLoader == InitLoader /\ [][NextLoader]_vars

\* the loads of the model id, and those still pending
LoadsOf(modelId) == {n \in 1..Len(loads) : loads[n].id = modelId}

PendingLoadsOf(modelId) == {n \in LoadsOf(modelId) : loads[n].state = "pending"}

\* the loadModel calls of the model id that have not returned
WaitingCallsOf(modelId) ==
  {c \in 1..Len(loadCalls) : loadCalls[c].id = modelId /\ loadCalls[c].result = 0}

\* C38, while no unload call has been made: the loadModel calls of a model id
\* that are under way together await one pipeline load, started once, and
\* the calls that awaited a load all return its pipeline or all throw; when
\* no load of the id is pending the id is not in loadingPromises, it is in
\* loadedModels with the pipeline of its last load if that load succeeded,
\* and in neither map if it failed, so that the next call starts a new load.
C38_OneLoadPerModel ==
  unloadCalls = 0 =>
    \A modelId \in RegistryIds :
      /\ Cardinality(PendingLoadsOf(modelId)) <= 1
      /\ \A n \in PendingLoadsOf(modelId) :
           /\ loadingPromises[modelId] = n
           /\ ~isModelLoaded(modelId)
           /\ \A c \in WaitingCallsOf(modelId) : loadCalls[c].load = n
      /\ PendingLoadsOf(modelId) = {} =>
           /\ ~isModelLoading(modelId)
           /\ WaitingCallsOf(modelId) = {}
           /\ \A n \in LoadsOf(modelId) :
                (\A k \in LoadsOf(modelId) : k <= n) =>
                  /\ loads[n].state = "fulfilled" => getLoadedModel(modelId) = n
                  /\ loads[n].state = "rejected" => ~isModelLoaded(modelId)
      /\ \A c, d \in 1..Len(loadCalls) :
           (loadCalls[c].load # 0 /\ loadCalls[c].load = loadCalls[d].load) =>
             loadCalls[c].result = loadCalls[d].result
      /\ \A c \in 1..Len(loadCalls) :
           (loadCalls[c].id = modelId /\ loadCalls[c].result > 0) =>
             loadCalls[c].result = getLoadedModel(modelId)

\* two calls awaited the first load of a model id, which failed, and both
\* threw; a third call started a second load, which succeeded
C38_Witness ==
  /\ unloadCalls = 0
  /\ Len(loadCalls) = 3
  /\ \E modelId \in RegistryIds :
       /\ \A c \in 1..3 : loadCalls[c].id = modelId
       /\ loadCalls[1].load = 1 /\ loadCalls[2].load = 1 /\ loadCalls[3].load = 2
       /\ loadCalls[1].result = -1 /\ loadCalls[2].result = -1 /\ loadCalls[3].result = 2
       /\ getLoadedModel(modelId) = 2
       /\ ~isModelLoading(modelId)

\* C39: after unloadModel(id) or unloadAllModels() the model id is not
\* reported loaded until a loadModel(id) call made after the unload has
\* succeeded, also when a load of the id was in flight at the unload.
C39_UnloadedUntilReloaded ==
  \A modelId \in RegistryIds : unloadedSince[modelId] => ~isModelLoaded(modelId)

====
